---------------------------- MODULE Spec2Model ----------------------------
(* A model of the calculations API: user registration and login with     *)
(* signed bearer tokens, and the per-user calculation records behind     *)
(* POST/GET/PUT/DELETE /calculations.                                     *)
(*                                                                        *)
(* The store is the PostgreSQL database behind the SQLAlchemy session:    *)
(* `users` and `calcs` hold the committed rows.  A request handler runs   *)
(* in its own session (src/app/database_client.py:45-58); what a handler  *)
(* has read or flushed but not yet committed lives in its slot of `req`.  *)
(* Handlers that read and then write are two steps (three for the         *)
(* registration: query, flush, commit), so requests interleave between    *)
(* their statements as they do on the server's thread pool.  A response   *)
(* is delivered (Deliver) before the next step is taken, so `resp` always *)
(* is the answer to the step just taken.                                  *)
(*                                                                        *)
(* The model layer is also called directly, one call per step through    *)
(* one session, as the unit and integration tests call it: `ret` is the  *)
(* last such call with its outcome, `_types` the registry of calculation *)
(* classes that Calculation.create consults.                             *)
(*                                                                        *)
(* Numbers: operands are integers, results are exact fractions <<n, d>>   *)
(* (d > 0, lowest terms): the model does not cover floating-point         *)
(* rounding.  Time is in minutes.  first_name, last_name, created_at and  *)
(* updated_at are carried by the code and left out of the rows here.      *)
EXTENDS Integers, Sequences, FiniteSets, TLC

VARIABLES
    users,      \* committed rows of table users: id -> row
    calcs,      \* committed rows of table calculations: id -> row
    nextUid,    \* the next fresh user id (uuid4 never repeats)
    nextCid,    \* the next fresh calculation id
    now,        \* the clock, minutes
    issued,     \* the tokens minted so far (what clients may hold)
    req,        \* per request slot: the handler's position and session state
    resp,       \* the response being sent, NoResponse between responses
    _types,     \* Calculation._types, the registry: lowercase tag -> class
    ret,        \* the last call made on the model layer directly, and its outcome
    DatabaseClient  \* the class DatabaseClient: its attributes and the instances made

vars == <<users, calcs, nextUid, nextCid, now, issued, req, resp, _types, ret, DatabaseClient>>

-----------------------------------------------------------------------------
(* Bounds of the model *)

MaxUsers == 2       \* user ids ever allocated
MaxCalcs == 2       \* calculation ids ever allocated
MaxTicks == 2       \* steps of the clock
MaxClients == 3     \* DatabaseClient instances ever made
MaxSessions == 2    \* sessions open at a time
MaxLogins == 2      \* successful logins (each mints two tokens)

Slots == {"r1", "r2"}   \* requests in flight at once

(* Program constants *)
ACCESS_TOKEN_TTL == 30              \* minutes
REFRESH_TOKEN_TTL == 7              \* days
MinutesPerDay == 1440
JWT_SECRET == "super-secret-key-for-jwt-min-32-chars"
JWT_REFRESH_SECRET == "super-secret-refresh-key-min-32-chars"

TickStep == ACCESS_TOKEN_TTL        \* the clock advances in steps of this many minutes

NoId == 0           \* None where an id is expected
NoTime == -1        \* NULL / absent where a time is expected

-----------------------------------------------------------------------------
(* Identifiers as strings.  str(uuid) is the canonical form; uuid.UUID()  *)
(* also accepts other spellings of the same id and raises ValueError on   *)
(* anything else.                                                         *)

UuidStr(i) == [kind |-> "str", form |-> "canonical", id |-> i]

IdStrings(ids) ==
    {[kind |-> "str", form |-> f, id |-> i] : f \in {"canonical", "urn"}, i \in ids}
    \cup {[kind |-> "str", form |-> "text", id |-> NoId]}

EmptyStr == [kind |-> "str", form |-> "empty", id |-> NoId]
AbsentClaim == [kind |-> "absent", form |-> "none", id |-> NoId]
IntClaim == [kind |-> "int", form |-> "number", id |-> 7]

ParseUUID(s) ==
    IF s.kind # "str" THEN [exc |-> "AttributeError", id |-> NoId]
    ELSE IF s.form \in {"canonical", "urn"} THEN [exc |-> "none", id |-> s.id]
    ELSE [exc |-> "ValueError", id |-> NoId]

-----------------------------------------------------------------------------
(* Tokens: a payload and the MAC of the payload under the signing key.    *)
(* The MAC is symbolic: it is genuine for a key exactly when it was made  *)
(* from that key and that payload.                                        *)

Sign(key, payload) == [key |-> key, payload |-> payload]

Jwt(key, sub, exp) ==
    [kind |-> "jwt", payload |-> [sub |-> sub, exp |-> exp],
     mac |-> Sign(key, [sub |-> sub, exp |-> exp])]

Garbage ==
    [kind |-> "garbage", payload |-> [sub |-> AbsentClaim, exp |-> NoTime],
     mac |-> Sign("none", [sub |-> AbsentClaim, exp |-> NoTime])]

DefaultAccessDelta == ACCESS_TOKEN_TTL
DefaultRefreshDelta == REFRESH_TOKEN_TTL * MinutesPerDay

(* expires_delta = NoTime stands for the argument left out (None).  A     *)
(* zero timedelta is falsy, so `expires_delta or default` takes the       *)
(* default for it too.                                                    *)
create_access_token(sub, expires_delta, t) ==
    LET delta == IF expires_delta = NoTime \/ expires_delta = 0
                 THEN DefaultAccessDelta ELSE expires_delta
    IN Jwt(JWT_SECRET, sub, t + delta)

(* create_refresh_token signing with the access secret *)
RefreshTokenAccessSecret(sub, expires_delta, t) ==
    LET delta == IF expires_delta = NoTime \/ expires_delta = 0
                 THEN DefaultRefreshDelta ELSE expires_delta
    IN Jwt(JWT_SECRET, sub, t + delta)

create_refresh_token(sub, expires_delta, t) ==
    LET delta == IF expires_delta = NoTime \/ expires_delta = 0
                 THEN DefaultRefreshDelta ELSE expires_delta
    IN Jwt(JWT_REFRESH_SECRET, sub, t + delta)

(* jose.jwt.decode: the segments parse, the signature verifies under the  *)
(* key, exp (when present) is not before the clock, sub (when present)    *)
(* is a string.  Every failure is a JWTError.                             *)
JwtDecode(token, key, t) ==
    IF token.kind # "jwt" THEN [exc |-> "JWTError", payload |-> token.payload]
    ELSE IF token.mac # Sign(key, token.payload)
        THEN [exc |-> "JWTError", payload |-> token.payload]
    ELSE IF token.payload.exp # NoTime /\ token.payload.exp < t
        THEN [exc |-> "JWTError", payload |-> token.payload]
    ELSE IF token.payload.sub.kind \notin {"str", "absent"}
        THEN [exc |-> "JWTError", payload |-> token.payload]
    ELSE [exc |-> "none", payload |-> token.payload]

(* An except clause that names JWTError alone *)
VerifyCaughtOnlyJWT == {"JWTError"}
(* The exceptions verify_token's except clause names *)
VerifyCaught == {"JWTError", "ValueError"}

(* verify_token with the clock stopped at 0: no token ever expires *)
VerifyTokenIgnoresExpiry(token, t) ==
    LET d == JwtDecode(token, JWT_SECRET, 0)
        p == ParseUUID(d.payload.sub)
    IN  IF d.exc # "none" \/ p.exc # "none" THEN [exc |-> "none", id |-> NoId]
        ELSE [exc |-> "none", id |-> p.id]

(* verify_token: exc = "none" is a normal return, of id (NoId for None);  *)
(* any other exc escapes to the caller.                                   *)
verify_token(token, t) ==
    LET d == JwtDecode(token, JWT_SECRET, t)
        user_id == d.payload.sub
        p == ParseUUID(user_id)
    IN  IF d.exc # "none"
        THEN (IF d.exc \in VerifyCaught THEN [exc |-> "none", id |-> NoId]
              ELSE [exc |-> d.exc, id |-> NoId])
        ELSE IF user_id.kind = "absent" \/ user_id.form = "empty"
        THEN [exc |-> "none", id |-> NoId]
        ELSE IF p.exc = "none" THEN [exc |-> "none", id |-> p.id]
        ELSE IF p.exc \in VerifyCaught THEN [exc |-> "none", id |-> NoId]
        ELSE [exc |-> p.exc, id |-> NoId]

-----------------------------------------------------------------------------
(* Passwords are sequences of characters. *)

UpperChars == {"S", "O"}
LowerChars == {"e", "c", "u", "r", "t", "h"}
DigitChars == {"1", "2", "3"}

PwdGood == <<"S", "e", "c", "u", "r", "e", "1", "2">>
PwdOther == <<"O", "t", "h", "e", "r", "1", "2", "3">>
PwdSeven == <<"S", "e", "c", "r", "e", "t", "1">>

(* bcrypt, symbolically: the hash names the scheme, the salt and what was *)
(* hashed; it verifies exactly the password it was made from.  A password *)
(* column that holds text which is no hash has the scheme "plain".        *)
Salts == {"salt"}

hash_password(password, salt) ==
    [scheme |-> "bcrypt", salt |-> salt, digest |-> password]

verify_password(plain_password, hash) ==
    hash.scheme = "bcrypt" /\ hash.digest = plain_password

Ok == [exc |-> "none", msg |-> ""]
ValueError(msg) == [exc |-> "ValueError", msg |-> msg]

(* UserCreate with the comparison of the two passwords made first *)
UserCreateValidateMatchFirst(form) ==
    LET password == form.password
        chars == {password[i] : i \in 1..Len(password)}
    IN  IF form.password # form.confirm_password
            THEN ValueError("Password inputs do not match")
        ELSE IF Len(password) = 0 THEN ValueError("Password is required")
        ELSE IF Len(password) < 8
            THEN ValueError("Password must contain at least 8 characters")
        ELSE IF chars \cap UpperChars = {}
            THEN ValueError("Password must contain at least one uppercase letter")
        ELSE IF chars \cap LowerChars = {}
            THEN ValueError("Password must contain at least one lowercase letter")
        ELSE IF chars \cap DigitChars = {}
            THEN ValueError("Password must contain at least one digit")
        ELSE Ok

(* PasswordMixin.validate_password, then UserCreate.validate_confirm_password *)
UserCreateValidate(form) ==
    LET password == form.password
        chars == {password[i] : i \in 1..Len(password)}
    IN  IF Len(password) = 0 THEN ValueError("Password is required")
        ELSE IF Len(password) < 8
            THEN ValueError("Password must contain at least 8 characters")
        ELSE IF chars \cap UpperChars = {}
            THEN ValueError("Password must contain at least one uppercase letter")
        ELSE IF chars \cap LowerChars = {}
            THEN ValueError("Password must contain at least one lowercase letter")
        ELSE IF chars \cap DigitChars = {}
            THEN ValueError("Password must contain at least one digit")
        ELSE IF form.password # form.confirm_password
            THEN ValueError("Password inputs do not match")
        ELSE Ok

(* The pre-check query filtering on the username alone *)
ExistingUserByUsername(us, form) == {u \in DOMAIN us : us[u].username = form.username}
(* The pre-check query of User.register *)
ExistingUser(us, form) ==
    {u \in DOMAIN us : us[u].email = form.email \/ us[u].username = form.username}

(* User.register with the pre-check query before the length test *)
RegisterCheckLookupFirst(us, form) ==
    IF ExistingUser(us, form) # {}
    THEN ValueError("Username or email already exists")
    ELSE IF Len(form.password) < 6
    THEN ValueError("Password must contain at least six characters")
    ELSE UserCreateValidate(form)

(* User.register up to the construction of the new row *)
RegisterCheck(us, form) ==
    IF Len(form.password) < 6
    THEN ValueError("Password must contain at least six characters")
    ELSE IF ExistingUser(us, form) # {}
    THEN ValueError("Username or email already exists")
    ELSE UserCreateValidate(form)

(* The new row with the password as submitted *)
NewUserPlaintext(form, salt) ==
    [username |-> form.username, email |-> form.email,
     password |-> [scheme |-> "plain", salt |-> "", digest |-> form.password],
     is_active |-> TRUE, is_verified |-> FALSE, last_login |-> NoTime]

NewUser(form, salt) ==
    [username |-> form.username, email |-> form.email,
     password |-> hash_password(form.password, salt),
     is_active |-> TRUE, is_verified |-> FALSE, last_login |-> NoTime]

(* The users table without its unique constraints *)
NoUniqueConstraint(rows, row) == FALSE
(* The unique constraints on users.username and users.email: whether a    *)
(* row of `rows` forbids inserting `row`                                  *)
UniqueConflict(rows, row) ==
    \E x \in rows : x.username = row.username \/ x.email = row.email

(* The login lookup of User.authenticate: .first() of the matching rows,  *)
(* in no stated order                                                     *)
LoginMatches(us, ident) ==
    {u \in DOMAIN us : us[u].username = ident \/ us[u].email = ident}

-----------------------------------------------------------------------------
(* Calculations *)

CalculationType == {"addition", "subtraction", "multiplication", "division", "modulus"}

(* str.lower() on the tags and class names the model uses *)
Lower(tag) ==
    CASE tag = "Addition" -> "addition"
      [] tag = "Subtraction" -> "subtraction"
      [] tag = "MULTIPLICATION" -> "multiplication"
      [] tag = "Multiplication" -> "multiplication"
      [] tag = "Division" -> "division"
      [] tag = "MODULUS" -> "modulus"
      [] tag = "Modulus" -> "modulus"
      [] tag = "Calculation" -> "calculation"
      [] tag = "BadCalcClass" -> "badcalcclass"
      [] OTHER -> tag

(* A class: its __name__, whether issubclass(cls, Calculation), and its   *)
(* polymorphic identity (what the type column of its records holds)       *)
Class(name, family, identity) == [name |-> name, family |-> family, identity |-> identity]

Addition == Class("Addition", TRUE, "addition")
Subtraction == Class("Subtraction", TRUE, "subtraction")
Multiplication == Class("Multiplication", TRUE, "multiplication")
Division == Class("Division", TRUE, "division")
Modulus == Class("Modulus", TRUE, "modulus")
Variants == {Addition, Subtraction, Multiplication, Division, Modulus}

(* The base class is a subclass of itself *)
CalculationBase == Class("Calculation", TRUE, "calculation")

(* Calculation.register: exc = "none" is a normal return; registry is the *)
(* registry afterwards                                                    *)
CalculationRegisterUnchecked(registry, calc_cls) ==
    [exc |-> "none", msg |-> "",
     registry |-> (Lower(calc_cls.name) :> calc_cls) @@ registry]
(* register keyed by the class name as it is spelt *)
CalculationRegisterByName(registry, calc_cls) ==
    IF ~calc_cls.family
    THEN [exc |-> "TypeError", msg |-> "Registered class must inherit from Calculation",
          registry |-> registry]
    ELSE [exc |-> "none", msg |-> "",
          registry |-> (calc_cls.name :> calc_cls) @@ registry]
CalculationRegister(registry, calc_cls) ==
    IF ~calc_cls.family
    THEN [exc |-> "TypeError", msg |-> "Registered class must inherit from Calculation",
          registry |-> registry]
    ELSE [exc |-> "none", msg |-> "",
          registry |-> (Lower(calc_cls.name) :> calc_cls) @@ registry]

(* The decorators of the module, applied in the order of the file *)
RECURSIVE RegisterAll(_, _)
RegisterAll(registry, classes) ==
    IF classes = <<>> THEN registry
    ELSE RegisterAll(CalculationRegister(registry, Head(classes)).registry, Tail(classes))

(* The registry once the module is imported: the five decorated classes *)
ImportedTypes ==
    RegisterAll(<< >>, <<Addition, Subtraction, Multiplication, Division, Modulus>>)

RECURSIVE Gcd(_, _)
Gcd(a, b) == IF b = 0 THEN a ELSE Gcd(b, a % b)

Abs(x) == IF x < 0 THEN -x ELSE x

(* The fraction n/d (d # 0) in lowest terms with a positive denominator *)
Rat(n, d) ==
    LET g == Gcd(Abs(n), Abs(d))
        s == IF d < 0 THEN -1 ELSE 1
    IN  <<(s * n) \div g, (s * d) \div g>>

(* Python's x % y: the remainder has the sign of the divisor *)
PyMod(x, y) == IF y > 0 THEN x % y ELSE -((-x) % (-y))

Apply(type, x, y) ==
    CASE type = "addition" -> Rat(x[1] + y * x[2], x[2])
      [] type = "subtraction" -> Rat(x[1] - y * x[2], x[2])
      [] type = "multiplication" -> Rat(x[1] * y, x[2])
      [] type = "division" -> Rat(x[1], x[2] * y)
      [] type = "modulus" -> Rat(PyMod(x[1], y), 1)

(* functools.reduce without an initial value: the first operand seeds it *)
RECURSIVE Reduce(_, _, _)
Reduce(type, acc, rest) ==
    IF rest = <<>> THEN acc
    ELSE Reduce(type, Apply(type, acc, Head(rest)), Tail(rest))

(* 0 in self.inputs *)
ZeroAnywhere(inputs) == \E i \in 1..Len(inputs) : inputs[i] = 0
(* 0 in self.inputs[1:] *)
ZeroAfterFirst(inputs) == \E i \in 2..Len(inputs) : inputs[i] = 0

NoResult == <<0, 0>>    \* result when get_result raised (no fraction has d = 0)

(* get_result without the zero-divisor test *)
GetResultNoZeroCheck(type, inputs) ==
    [exc |-> "none", msg |-> "",
     value |-> IF ZeroAfterFirst(inputs) /\ type \in {"division", "modulus"}
               THEN <<0, 1>> ELSE Reduce(type, Rat(inputs[1], 1), Tail(inputs))]

(* get_result folding addition, subtraction and multiplication from the  *)
(* last operand back to the first                                         *)
GetResultFromRight(type, inputs) ==
    LET n == Len(inputs)
        rev == [i \in 1..n |-> inputs[n + 1 - i]]
    IN  IF type \in {"division", "modulus"} /\ ZeroAfterFirst(inputs)
        THEN [exc |-> "ValueError",
              msg |-> IF type = "division" THEN "Zero divisor input invalid for Division"
                      ELSE "Zero divisor input invalid for Modulo Division",
              value |-> NoResult]
        ELSE IF type \in {"division", "modulus"}
        THEN [exc |-> "none", msg |-> "",
              value |-> Reduce(type, Rat(inputs[1], 1), Tail(inputs))]
        ELSE [exc |-> "none", msg |-> "", value |-> Reduce(type, Rat(rev[1], 1), Tail(rev))]

(* get_result of the variant `type` on the operands `inputs` *)
GetResult(type, inputs) ==
    IF type = "division" /\ ZeroAfterFirst(inputs)
    THEN [exc |-> "ValueError", msg |-> "Zero divisor input invalid for Division",
          value |-> NoResult]
    ELSE IF type = "modulus" /\ ZeroAfterFirst(inputs)
    THEN [exc |-> "ValueError",
          msg |-> "Zero divisor input invalid for Modulo Division",
          value |-> NoResult]
    ELSE [exc |-> "none", msg |-> "",
          value |-> Reduce(type, Rat(inputs[1], 1), Tail(inputs))]

(* Calculation.create with the operand count checked before the tag *)
CalculationCreateCountFirst(calc_type, user_id, inputs) ==
    IF Len(inputs) < 2
    THEN [exc |-> "ValueError", msg |-> <<calc_type, " requires at least 2 operands">>,
          calc |-> [user_id |-> NoId, type |-> "calculation", inputs |-> <<>>,
                    result |-> NoResult]]
    ELSE IF Lower(calc_type) \notin DOMAIN _types
    THEN [exc |-> "ValueError", msg |-> <<"Unsupported calculation type: ", calc_type>>,
          calc |-> [user_id |-> NoId, type |-> "calculation", inputs |-> <<>>,
                    result |-> NoResult]]
    ELSE [exc |-> "none", msg |-> <<"", "">>,
          calc |-> [user_id |-> user_id, type |-> _types[Lower(calc_type)].identity,
                    inputs |-> inputs, result |-> NoResult]]

(* Calculation.create with the lowercase tag in its messages *)
CalculationCreateLoweredTag(calc_type, user_id, inputs) ==
    IF Lower(calc_type) \notin DOMAIN _types
    THEN [exc |-> "ValueError",
          msg |-> <<"Unsupported calculation type: ", Lower(calc_type)>>,
          calc |-> [user_id |-> NoId, type |-> "calculation", inputs |-> <<>>,
                    result |-> NoResult]]
    ELSE IF Len(inputs) < 2
    THEN [exc |-> "ValueError",
          msg |-> <<Lower(calc_type), " requires at least 2 operands">>,
          calc |-> [user_id |-> NoId, type |-> "calculation", inputs |-> <<>>,
                    result |-> NoResult]]
    ELSE [exc |-> "none", msg |-> <<"", "">>,
          calc |-> [user_id |-> user_id, type |-> _types[Lower(calc_type)].identity,
                    inputs |-> inputs, result |-> NoResult]]

(* Calculation.create: the tag is looked up in lowercase in the registry, *)
(* then the operand count is checked; the messages carry the tag as      *)
(* given.                                                                 *)
CalculationCreate(calc_type, user_id, inputs) ==
    IF Lower(calc_type) \notin DOMAIN _types
    THEN [exc |-> "ValueError", msg |-> <<"Unsupported calculation type: ", calc_type>>,
          calc |-> [user_id |-> NoId, type |-> "calculation", inputs |-> <<>>,
                    result |-> NoResult]]
    ELSE IF Len(inputs) < 2
    THEN [exc |-> "ValueError", msg |-> <<calc_type, " requires at least 2 operands">>,
          calc |-> [user_id |-> NoId, type |-> "calculation", inputs |-> <<>>,
                    result |-> NoResult]]
    ELSE [exc |-> "none", msg |-> <<"", "">>,
          calc |-> [user_id |-> user_id, type |-> _types[Lower(calc_type)].identity,
                    inputs |-> inputs, result |-> NoResult]]

(* CalculationForm: validate_type, min_items = 2, validate_inputs *)
CalculationFormValid(type, inputs) ==
    /\ Lower(type) \in CalculationType
    /\ Len(inputs) >= 2
    /\ ~(Lower(type) \in {"division", "modulus"} /\ ZeroAfterFirst(inputs))

(* CalculationUpdate: inputs is optional, with min_items = 2 when given *)
CalculationUpdateValid(body) == ~body.given \/ Len(body.inputs) >= 2

-----------------------------------------------------------------------------
(* DatabaseClient, the singleton that holds the engine and the session    *)
(* factory.  The class is a record: its attributes _instance and          *)
(* _is_configured, the instances made so far (object id -> the instance's *)
(* own attributes) and the number of engines and session factories made   *)
(* (each create_engine and each sessionmaker call returns a new object),  *)
(* and the sessions open, counted by the factory that made them.  An      *)
(* attribute an instance may lack is <<>> or <<value>>.                   *)

NoObject == 0
Unset == <<>>

(* An instance as object.__new__ returns it: no attribute of its own *)
Bare == [_is_configured |-> Unset, engine |-> NoObject, session_agent |-> NoObject]

(* The class as its definition leaves it *)
DatabaseClientClass ==
    [_instance |-> NoObject, _is_configured |-> FALSE, made |-> << >>, factories |-> 0,
     open |-> << >>]

(* self._is_configured: the instance's attribute if it has one, else the  *)
(* class's                                                                *)
IsConfigured(cls, self) ==
    IF cls.made[self]._is_configured # Unset
    THEN cls.made[self]._is_configured[1]
    ELSE cls._is_configured

(* __new__ without the test of _instance: every call makes an instance *)
NewAlways(cls) ==
    LET o == Cardinality(DOMAIN cls.made) + 1
    IN  [cls EXCEPT !._instance = o, !.made = (o :> Bare) @@ cls.made]

(* __new__: the class after the call; the instance returned is its        *)
(* _instance                                                              *)
New(cls) ==
    IF cls._instance = NoObject
    THEN LET o == Cardinality(DOMAIN cls.made) + 1
         IN  [cls EXCEPT !._instance = o, !.made = (o :> Bare) @@ cls.made]
    ELSE cls

(* __init__ on the instance `self`; create_engine accepts the configured  *)
(* DATABASE_URL or raises.  The flag is set on the instance.              *)
Initialize(cls, self, url_ok) ==
    IF IsConfigured(cls, self) THEN [exc |-> "none", cls |-> cls]
    ELSE IF ~url_ok THEN [exc |-> "SQLAlchemyError", cls |-> cls]
    ELSE [exc |-> "none",
          cls |-> [cls EXCEPT !.factories = cls.factories + 1,
                              !.open = (cls.factories + 1 :> 0) @@ cls.open,
                              !.made[self] = [_is_configured |-> <<TRUE>>,
                                              engine |-> cls.factories + 1,
                                              session_agent |-> cls.factories + 1]]]

-----------------------------------------------------------------------------
(* What the clients submit *)

Usernames == {"ann", "bob@x.io"}    \* a username may be any string
Emails == {"ann@x.io", "bob@x.io"}
LoginIdents == Usernames \cup Emails \cup {"nobody"}
LoginPasswords == {PwdGood, PwdOther}

RegisterForms ==
    [username : Usernames, email : Emails,
     password : {PwdGood, PwdSeven}, confirm_password : {PwdGood, PwdOther}]

TypeInputs == {"addition", "Division", "modulus", "power"}
InputLists == {<<2>>, <<2, 1>>, <<2, 0>>}

(* The body of PUT: inputs left out, or a list *)
UpdateBodies(lists) ==
    {[given |-> FALSE, inputs |-> <<>>]}
    \cup {[given |-> TRUE, inputs |-> l] : l \in lists \cup {<<>>}}

CalcIdInputs ==
    {UuidStr(c) : c \in 1..MaxCalcs} \cup {s \in IdStrings({}) : s.form = "text"}

(* The tokens a client can present: those minted, those altered without   *)
(* the key (another subject, or a later expiry, under the old MAC),       *)
(* tokens signed with a key of the client's own, and text that is no      *)
(* token.                                                                 *)
Tampered(token, ids) ==
    {[token EXCEPT !.payload.sub = UuidStr(i)] : i \in ids}
    \cup {[token EXCEPT !.payload.exp = @ + DefaultRefreshDelta]}

Forged(ids, t) == {Jwt("attacker-key", UuidStr(i), t + DefaultAccessDelta) : i \in ids}

BearerInputs ==
    LET ids == 1..(nextUid - 1)
        access == {tk \in issued : tk.mac.key = JWT_SECRET}
    IN  issued \cup (UNION {Tampered(tk, ids) : tk \in access} \ issued)
        \cup Forged(ids, now) \cup {Garbage}

-----------------------------------------------------------------------------
(* Request slots and responses *)

NoForm == [username |-> "", email |-> "", password |-> <<>>, confirm_password |-> <<>>]
NoRow == [username |-> "", email |-> "", password |-> hash_password(<<>>, ""),
          is_active |-> FALSE, is_verified |-> FALSE, last_login |-> NoTime]
NoCalc == [user_id |-> NoId, type |-> "calculation", inputs |-> <<>>, result |-> NoResult]

(* Where no bearer token was presented, and where the path holds no id *)
NoBearer ==
    [kind |-> "absent", payload |-> [sub |-> AbsentClaim, exp |-> NoTime],
     mac |-> Sign("none", [sub |-> AbsentClaim, exp |-> NoTime])]
NoPath == AbsentClaim

Idle == [pc |-> "idle", bearer |-> NoBearer, uid |-> NoId, cid |-> NoId, form |-> NoForm,
         row |-> NoRow, calc |-> NoCalc, snap |-> NoCalc]

(* A response, with the request it answers: the endpoint, the bearer      *)
(* token and the id in the path; then the status, the exception raised    *)
(* inside the handler (caught there or not), the detail, the caller the   *)
(* dependency resolved, the record found or made, and the records shown.  *)
(* A list response also has the order in which it shows them, as ids.     *)
Response(op, bearer, path, status, exc, detail, uid, cid, body) ==
    [op |-> op, bearer |-> bearer, path |-> path, status |-> status, exc |-> exc,
     detail |-> detail, uid |-> uid, cid |-> cid, body |-> body, order |-> <<>>]

NoResponse == Response("none", NoBearer, NoPath, 0, "none", <<>>, NoId, NoId, {})

(* A call on the model layer, as the unit and integration tests make it:  *)
(* the function, its arguments, the exception it raised ("none" for a     *)
(* normal return) with its message, and what it returned.                 *)
Returned(op, args, exc, msg, value) ==
    [op |-> op, args |-> args, exc |-> exc, msg |-> msg, value |-> value]

NoCall == Returned("none", [none |-> TRUE], "none", <<>>, [none |-> TRUE])

(* A calculation row as the response shows it *)
CalculationRecord(cs, c) ==
    [id |-> c, user_id |-> cs[c].user_id, type |-> cs[c].type,
     inputs |-> cs[c].inputs, result |-> cs[c].result]

Without(f, k) == [x \in DOMAIN f \ {k} |-> f[x]]

(* A new request takes the lowest free slot (the slots are alike) *)
FreeSlot(r) == req[r].pc = "idle" /\ (r = "r1" \/ req["r1"].pc # "idle")

Deliver ==
    /\ resp # NoResponse
    /\ resp' = NoResponse
    /\ UNCHANGED <<users, calcs, nextUid, nextCid, now, issued, req, _types, ret, DatabaseClient>>

-----------------------------------------------------------------------------
(* The bearer-token dependencies *)

(* What the dependency hands on: a status, the exception that escaped,   *)
(* the detail, and of the UserRecord the id and is_active.                *)
Resolved(status, exc, detail, uid, is_active) ==
    [status |-> status, exc |-> exc, detail |-> detail, uid |-> uid,
     is_active |-> is_active]

(* get_current_user trusting the token without the user query *)
GetCurrentUserNoLookup(token, us, t) ==
    LET token_data == verify_token(token, t)
    IN  IF token_data.id = NoId
        THEN Resolved(401, "none", "Could not validate credentials", NoId, FALSE)
        ELSE Resolved(200, "none", "", token_data.id, TRUE)
(* get_current_user *)
GetCurrentUser(token, us, t) ==
    LET token_data == verify_token(token, t)
    IN  IF token_data.exc # "none"
        THEN Resolved(500, token_data.exc, "Internal Server Error", NoId, FALSE)
        ELSE IF token_data.id = NoId \/ token_data.id \notin DOMAIN us
        THEN Resolved(401, "none", "Could not validate credentials", NoId, FALSE)
        ELSE Resolved(200, "none", "", token_data.id, us[token_data.id].is_active)

(* get_current_active_user without the test of is_active *)
GetCurrentActiveUserNoCheck(token, us, t) == GetCurrentUser(token, us, t)
(* get_current_active_user *)
GetCurrentActiveUser(token, us, t) ==
    LET current_user == GetCurrentUser(token, us, t)
    IN  IF current_user.status # 200 THEN current_user
        ELSE IF ~current_user.is_active
        THEN Resolved(400, "none", "Inactive user", NoId, FALSE)
        ELSE current_user

AuthFailure(op, token, path, a) ==
    Response(op, token, path, a.status, a.exc, <<a.detail>>, NoId, NoId, {})

(* The lookup by id alone *)
FindCalcAnyOwner(cs, calc_uuid, user_id) ==
    IF calc_uuid \in DOMAIN cs THEN calc_uuid ELSE NoId
(* The handlers' lookup: the row with this id and this owner, or none *)
FindCalc(cs, calc_uuid, user_id) ==
    IF calc_uuid \in DOMAIN cs /\ cs[calc_uuid].user_id = user_id
    THEN calc_uuid ELSE NoId

(* list_calculations' query *)
OwnedCalcs(cs, user_id) == {c \in DOMAIN cs : cs[c].user_id = user_id}

(* The orders in which .all() may return the rows `ids`: the query has no *)
(* ORDER BY, so every enumeration of them is one                          *)
Orders(ids) ==
    {f \in [1..Cardinality(ids) -> ids] :
        \A i, j \in 1..Cardinality(ids) : f[i] = f[j] => i = j}

-----------------------------------------------------------------------------
(* The clock *)

Tick ==
    /\ resp = NoResponse
    /\ now + TickStep <= MaxTicks * TickStep
    /\ now' = now + TickStep
    /\ UNCHANGED <<users, calcs, nextUid, nextCid, issued, req, resp, _types, ret, DatabaseClient>>

-----------------------------------------------------------------------------
(* POST /auth/register.  FastAPI validates the body as UserCreate (422),  *)
(* then the handler calls User.register: the checks and the pre-check     *)
(* query, the INSERT at flush, and the handler's commit.                  *)

RegisterBegin(r, form) ==
    /\ resp = NoResponse
    /\ FreeSlot(r)
    /\ nextUid + Cardinality({s \in Slots : req[s].pc = "reg_checked"}) <= MaxUsers
    /\ LET body == UserCreateValidate(form)
           chk == RegisterCheck(users, form)
       IN  IF body.exc # "none"
           THEN /\ resp' = Response("register", NoBearer, NoPath, 422, "none", <<body.msg>>, NoId, NoId, {})
                /\ UNCHANGED req
           ELSE IF chk.exc # "none"
           THEN \* except ValueError: db.rollback(), 400
                /\ resp' = Response("register", NoBearer, NoPath, 400, "ValueError", <<chk.msg>>, NoId, NoId, {})
                /\ UNCHANGED req
           ELSE /\ req' = [req EXCEPT ![r] = [Idle EXCEPT !.pc = "reg_checked",
                                                           !.form = form]]
                /\ UNCHANGED resp
    /\ UNCHANGED <<users, calcs, nextUid, nextCid, now, issued, _types, ret, DatabaseClient>>

(* db.add(new_user); db.flush(): the INSERT.  It waits while another      *)
(* transaction holds an uncommitted row with the same username or email;  *)
(* against a committed one it fails with IntegrityError, which is no      *)
(* ValueError: neither User.register nor the handler catches it, the      *)
(* request ends as a server error and the session closes (rolled back).   *)
RegisterFlush(r, salt) ==
    /\ resp = NoResponse
    /\ req[r].pc = "reg_checked"
    /\ LET new_user == NewUser(req[r].form, salt)
           pending == {req[s].row : s \in {x \in Slots \ {r} : req[x].pc = "reg_flushed"}}
           committed == {users[u] : u \in DOMAIN users}
       IN  /\ ~UniqueConflict(pending, new_user)
           /\ IF UniqueConflict(committed, new_user)
              THEN /\ resp' = Response("register", NoBearer, NoPath, 500,
                                       "IntegrityError", <<"Internal Server Error">>, NoId, NoId, {})
                   /\ req' = [req EXCEPT ![r] = Idle]
                   /\ UNCHANGED nextUid
              ELSE /\ req' = [req EXCEPT ![r] = [@ EXCEPT !.pc = "reg_flushed",
                                                          !.uid = nextUid,
                                                          !.row = new_user]]
                   /\ nextUid' = nextUid + 1
                   /\ UNCHANGED resp
    /\ UNCHANGED <<users, calcs, nextCid, now, issued, _types, ret, DatabaseClient>>

RegisterCommit(r) ==
    /\ resp = NoResponse
    /\ req[r].pc = "reg_flushed"
    /\ users' = (req[r].uid :> req[r].row) @@ users
    /\ resp' = Response("register", NoBearer, NoPath, 201, "none", <<>>, req[r].uid, NoId, {})
    /\ req' = [req EXCEPT ![r] = Idle]
    /\ UNCHANGED <<calcs, nextUid, nextCid, now, issued, _types, ret, DatabaseClient>>

-----------------------------------------------------------------------------
(* POST /auth/login and POST /auth/token *)

(* The test without verify_password *)
AuthenticateNoPasswordCheck(us, user, password) == user # NoId
(* The test of User.authenticate: a user was found and the password       *)
(* verifies against the stored hash                                       *)
Authenticate(us, user, password) ==
    ~(user = NoId \/ ~verify_password(password, us[user].password))

Login(endpoint, ident, password) ==
    /\ resp = NoResponse
    /\ \E user \in (IF LoginMatches(users, ident) = {} THEN {NoId}
                    ELSE LoginMatches(users, ident)) :
          IF ~Authenticate(users, user, password)
          THEN /\ resp' = Response(endpoint, NoBearer, NoPath, 401, "none",
                                   <<"Invalid username or password">>, NoId, NoId, {})
               /\ UNCHANGED <<users, issued>>
          ELSE LET access == create_access_token(UuidStr(user), NoTime, now)
                   refresh == create_refresh_token(UuidStr(user), NoTime, now)
                   \* /auth/token hands out the access token only
                   given == IF endpoint = "login" THEN {access, refresh} ELSE {access}
               IN  /\ Cardinality(issued \cup given) <= 2 * MaxLogins
                   /\ users' = [users EXCEPT ![user].last_login = now]
                   /\ issued' = issued \cup given
                   /\ resp' = Response(endpoint, NoBearer, NoPath, 200, "none", <<>>, user, NoId, {})
    /\ UNCHANGED <<calcs, nextUid, nextCid, now, req, _types, ret, DatabaseClient>>

-----------------------------------------------------------------------------
(* A user row deleted through the session (the ORM relationship cascades  *)
(* to the user's calculations); no endpoint does it, the fixtures do.     *)

(* The relationship without its cascade *)
NoCascade(cs, u) == cs
(* cascade = "all, delete, delete-orphan" on User.calculations: the rows  *)
(* left once the rows of user u are deleted with it                       *)
CascadeDelete(cs, u) == [c \in {x \in DOMAIN cs : cs[x].user_id # u} |-> cs[c]]

(* ForeignKey('users.id') on calculations.user_id *)
ForeignKeyHolds(us, calculation) == calculation.user_id \in DOMAIN us

DeleteUser(u) ==
    /\ resp = NoResponse
    /\ u \in DOMAIN users
    /\ users' = Without(users, u)
    /\ calcs' = CascadeDelete(calcs, u)
    /\ UNCHANGED <<nextUid, nextCid, now, issued, req, resp, _types, ret, DatabaseClient>>

-----------------------------------------------------------------------------
(* The /calculations endpoints.  The bearer dependency runs first, then   *)
(* the body is validated (422), then the handler.                         *)

(* GET /calculations *)
ListCalculations(token) ==
    /\ resp = NoResponse
    /\ LET a == GetCurrentActiveUser(token, users, now)
       IN  IF a.status # 200 THEN resp' = AuthFailure("list", token, NoPath, a)
           ELSE \E order \in Orders(OwnedCalcs(calcs, a.uid)) :
                   resp' = [Response("list", token, NoPath, 200, "none", <<>>, a.uid, NoId,
                                     {CalculationRecord(calcs, c) :
                                         c \in OwnedCalcs(calcs, a.uid)})
                               EXCEPT !.order = order]
    /\ UNCHANGED <<users, calcs, nextUid, nextCid, now, issued, req, _types, ret, DatabaseClient>>

(* What the three /calculations/{calc_id} handlers do first: UUID(calc_id) *)
(* (400 on ValueError), then the lookup (404)                             *)
Locate(op, token, a, calc_id) ==
    LET calc_uuid == ParseUUID(calc_id)
        found == FindCalc(calcs, calc_uuid.id, a.uid)
    IN  IF calc_uuid.exc # "none"
        THEN Response(op, token, calc_id, 400, calc_uuid.exc,
                      <<"Invalid calculation id format">>, a.uid, NoId, {})
        ELSE IF found = NoId
        THEN Response(op, token, calc_id, 404, "none",
                      <<IF op = "get" THEN "Calculation not found."
                        ELSE "Calculation not found">>, a.uid, NoId, {})
        ELSE Response(op, token, calc_id, 200, "none", <<>>, a.uid, found,
                      {CalculationRecord(calcs, found)})

(* GET /calculations/{calc_id} *)
GetCalculation(token, calc_id) ==
    /\ resp = NoResponse
    /\ LET a == GetCurrentActiveUser(token, users, now)
       IN  IF a.status # 200 THEN resp' = AuthFailure("get", token, calc_id, a)
           ELSE resp' = Locate("get", token, a, calc_id)
    /\ UNCHANGED <<users, calcs, nextUid, nextCid, now, issued, req, _types, ret, DatabaseClient>>

(* POST /calculations: Calculation.create and get_result, inside the      *)
(* handler's try; a ValueError is rolled back and answered 400.           *)
CreateBegin(r, token, type, inputs) ==
    /\ resp = NoResponse
    /\ FreeSlot(r)
    /\ LET a == GetCurrentActiveUser(token, users, now)
           new == CalculationCreate(Lower(type), a.uid, inputs)
           res == GetResult(new.calc.type, inputs)
       IN  IF a.status # 200
           THEN resp' = AuthFailure("create", token, NoPath, a) /\ UNCHANGED req
           ELSE IF ~CalculationFormValid(type, inputs)
           THEN /\ resp' = Response("create", token, NoPath, 422, "none",
                                    <<"validation error">>, a.uid, NoId, {})
                /\ UNCHANGED req
           ELSE IF new.exc # "none"
           THEN /\ resp' = Response("create", token, NoPath, 400, new.exc, new.msg,
                                    a.uid, NoId, {})
                /\ UNCHANGED req
           ELSE IF res.exc # "none"
           THEN /\ resp' = Response("create", token, NoPath, 400, res.exc, <<res.msg>>,
                                    a.uid, NoId, {})
                /\ UNCHANGED req
           ELSE /\ req' = [req EXCEPT ![r] =
                              [Idle EXCEPT !.pc = "post_ready", !.bearer = token, !.uid = a.uid,
                                           !.calc = [new.calc EXCEPT !.result = res.value]]]
                /\ UNCHANGED resp
    /\ UNCHANGED <<users, calcs, nextUid, nextCid, now, issued, _types, ret, DatabaseClient>>

(* db.add(new_calculation); db.commit(): the INSERT, under the foreign    *)
(* key calculations.user_id -> users.id.                                  *)
CreateCommit(r) ==
    /\ resp = NoResponse
    /\ req[r].pc = "post_ready"
    /\ IF ~ForeignKeyHolds(users, req[r].calc)
       THEN /\ resp' = Response("create", req[r].bearer, NoPath, 500, "IntegrityError",
                                <<"Internal Server Error">>, req[r].uid, NoId, {})
            /\ UNCHANGED <<calcs, nextCid>>
       ELSE /\ calcs' = (nextCid :> req[r].calc) @@ calcs
            /\ nextCid' = nextCid + 1
            /\ resp' = Response("create", req[r].bearer, NoPath, 201, "none", <<>>,
                                req[r].uid, nextCid,
                                {CalculationRecord((nextCid :> req[r].calc), nextCid)})
    /\ req' = [req EXCEPT ![r] = Idle]
    /\ UNCHANGED <<users, nextUid, now, issued, _types, ret, DatabaseClient>>

(* update_calculation, lines 252-254: the new operands and the result     *)
(* recomputed from them; get_result's ValueError is not caught here.      *)
Updated(calculation, inputs) ==
    LET res == GetResult(calculation.type, inputs)
    IN  [exc |-> res.exc, msg |-> res.msg,
         calc |-> [calculation EXCEPT !.inputs = inputs, !.result = res.value]]

(* A commit that writes every column of the loaded row *)
FlushedWholeRow(current, snap, calculation) == calculation

(* db.commit() of a loaded row: the UPDATE sets the columns whose value   *)
(* differs from the value loaded (the session's snapshot), on the row as  *)
(* it is now.                                                             *)
Flushed(current, snap, calculation) ==
    [current EXCEPT
        !.inputs = IF calculation.inputs # snap.inputs THEN calculation.inputs ELSE @,
        !.result = IF calculation.result # snap.result THEN calculation.result ELSE @]

(* PUT /calculations/{calc_id} *)
UpdateBegin(r, token, calc_id, body) ==
    /\ resp = NoResponse
    /\ FreeSlot(r)
    /\ LET a == GetCurrentActiveUser(token, users, now)
           loc == Locate("update", token, a, calc_id)
           upd == Updated(calcs[loc.cid], body.inputs)
       IN  IF a.status # 200
           THEN resp' = AuthFailure("update", token, calc_id, a) /\ UNCHANGED req
           ELSE IF ~CalculationUpdateValid(body)
           THEN /\ resp' = Response("update", token, calc_id, 422, "none",
                                    <<"validation error">>, a.uid, NoId, {})
                /\ UNCHANGED req
           ELSE IF loc.status # 200
           THEN resp' = loc /\ UNCHANGED req
           ELSE IF body.given /\ body.inputs # <<>> /\ upd.exc # "none"
           THEN \* no except clause around get_result: a server error
                /\ resp' = Response("update", token, calc_id, 500, upd.exc,
                                    <<"Internal Server Error">>, a.uid, loc.cid, {})
                /\ UNCHANGED req
           ELSE /\ req' = [req EXCEPT ![r] =
                              [Idle EXCEPT !.pc = "put_ready", !.bearer = token, !.uid = a.uid,
                                           !.cid = loc.cid, !.snap = calcs[loc.cid],
                                           !.calc = IF body.given /\ body.inputs # <<>>
                                                    THEN upd.calc ELSE calcs[loc.cid]]]
                /\ UNCHANGED resp
    /\ UNCHANGED <<users, calcs, nextUid, nextCid, now, issued, _types, ret, DatabaseClient>>

UpdateCommit(r) ==
    /\ resp = NoResponse
    /\ req[r].pc = "put_ready"
    /\ IF req[r].cid \notin DOMAIN calcs
       THEN \* the UPDATE matches no row: StaleDataError
            /\ resp' = Response("update", req[r].bearer, UuidStr(req[r].cid), 500,
                                "StaleDataError", <<"Internal Server Error">>,
                                req[r].uid, req[r].cid, {})
            /\ UNCHANGED calcs
       ELSE /\ calcs' = [calcs EXCEPT ![req[r].cid] = Flushed(@, req[r].snap, req[r].calc)]
            /\ resp' = Response("update", req[r].bearer, UuidStr(req[r].cid), 200, "none",
                                <<>>, req[r].uid, req[r].cid,
                                {CalculationRecord(calcs', req[r].cid)})
    /\ req' = [req EXCEPT ![r] = Idle]
    /\ UNCHANGED <<users, nextUid, nextCid, now, issued, _types, ret, DatabaseClient>>

(* A DELETE that empties the table *)
RemovedAll(cs, c) == << >>
(* db.delete(calculation); db.commit(): the table without the row *)
Removed(cs, c) == [x \in DOMAIN cs \ {c} |-> cs[x]]

(* DELETE /calculations/{calc_id} *)
DeleteBegin(r, token, calc_id) ==
    /\ resp = NoResponse
    /\ FreeSlot(r)
    /\ LET a == GetCurrentActiveUser(token, users, now)
           loc == Locate("delete", token, a, calc_id)
       IN  IF a.status # 200
           THEN resp' = AuthFailure("delete", token, calc_id, a) /\ UNCHANGED req
           ELSE IF loc.status # 200
           THEN resp' = loc /\ UNCHANGED req
           ELSE /\ req' = [req EXCEPT ![r] = [Idle EXCEPT !.pc = "del_ready",
                                                           !.bearer = token,
                                                           !.uid = a.uid, !.cid = loc.cid]]
                /\ UNCHANGED resp
    /\ UNCHANGED <<users, calcs, nextUid, nextCid, now, issued, _types, ret, DatabaseClient>>

DeleteCommit(r) ==
    /\ resp = NoResponse
    /\ req[r].pc = "del_ready"
    /\ calcs' = Removed(calcs, req[r].cid)
    /\ resp' = Response("delete", req[r].bearer, UuidStr(req[r].cid), 204, "none", <<>>,
                        req[r].uid, req[r].cid, {})
    /\ req' = [req EXCEPT ![r] = Idle]
    /\ UNCHANGED <<users, nextUid, nextCid, now, issued, _types, ret, DatabaseClient>>

-----------------------------------------------------------------------------
(* The model layer called directly, through one session, as the unit and  *)
(* integration tests call it.  Each call is one step; `ret` keeps the     *)
(* call and its outcome.                                                  *)

None == [none |-> TRUE]

(* Classes handed to Calculation.register that are outside the family:    *)
(* the test's, and one that bears a variant's name                        *)
BadCalcClass == Class("BadCalcClass", FALSE, "none")
Impostor == Class("Addition", FALSE, "none")
ClassInputs == Variants \cup {CalculationBase, BadCalcClass, Impostor}

FactoryTags == {"addition", "Subtraction", "MULTIPLICATION", "Division", "modulus",
                "bad_type", "Calculation"}
FactoryOwners == {1, 3}
FactoryLists == {<<>>, <<0>>, <<6, 3>>, <<0, 2>>, <<2, 0>>, <<-7, 3>>,
                 <<5, 3, 1>>, <<7, 4, 3>>, <<12, 2, 0, 2>>}

(* Calculation.register(calc_cls) *)
RegisterClass(calc_cls) ==
    /\ LET out == CalculationRegister(_types, calc_cls)
       IN  /\ _types' = out.registry
           /\ ret' = Returned("register", [calc_cls |-> calc_cls], out.exc, <<out.msg>>,
                              IF out.exc = "none" THEN calc_cls ELSE None)
    /\ UNCHANGED <<users, calcs, nextUid, nextCid, now, issued, req, resp, DatabaseClient>>

(* Calculation.create(calc_type, user_id, inputs) *)
CreateCall(calc_type, user_id, inputs) ==
    /\ LET new == CalculationCreate(calc_type, user_id, inputs)
       IN  ret' = Returned("create",
                           [calc_type |-> calc_type, user_id |-> user_id, inputs |-> inputs],
                           new.exc, new.msg, new.calc)
    /\ UNCHANGED <<users, calcs, nextUid, nextCid, now, issued, req, resp, _types, DatabaseClient>>

(* get_result() on the record the last create returned.  A record of the  *)
(* base class has the abstract method, which raises NotImplementedError.  *)
GetResultCall ==
    /\ ret.op = "create"
    /\ ret.exc = "none"
    /\ LET calculation == ret.value
           res == IF calculation.type \notin CalculationType
                  THEN [exc |-> "NotImplementedError", msg |-> "", value |-> NoResult]
                  ELSE GetResult(calculation.type, calculation.inputs)
       IN  ret' = Returned("get_result", calculation, res.exc, <<res.msg>>,
                           [result |-> res.value])
    /\ UNCHANGED <<users, calcs, nextUid, nextCid, now, issued, req, resp, _types, DatabaseClient>>

(* db.add(Calculation.create(...)); db.commit(), as the model tests do *)
SaveNew(calc_type, user_id, inputs) ==
    /\ LET new == CalculationCreate(calc_type, user_id, inputs)
       IN  /\ new.exc = "none"
           /\ IF ~ForeignKeyHolds(users, new.calc)
              THEN /\ ret' = Returned("commit", new.calc, "IntegrityError", <<>>, None)
                   /\ UNCHANGED <<calcs, nextCid>>
              ELSE /\ nextCid <= MaxCalcs
                   /\ calcs' = (nextCid :> new.calc) @@ calcs
                   /\ nextCid' = nextCid + 1
                   /\ ret' = Returned("commit", new.calc, "none", <<>>, [id |-> nextCid])
    /\ UNCHANGED <<users, nextUid, now, issued, req, resp, _types, DatabaseClient>>

PwdShort == <<"S", "e", "c", "1", "2">>

UserData ==
    [username : Usernames, email : Emails,
     password : {<<>>, PwdShort, PwdSeven, PwdGood, PwdOther},
     confirm_password : {PwdGood, PwdOther}]

(* User.register(db, user_data), then the caller's db.commit(), or its    *)
(* db.rollback() after an exception.  A password left out of user_data is *)
(* read as the empty string.  The INSERT at db.flush() is under the       *)
(* unique constraints.                                                    *)
RegisterCall(user_data, salt) ==
    /\ LET chk == RegisterCheck(users, user_data)
           committed == {users[u] : u \in DOMAIN users}
       IN  IF chk.exc # "none"
           THEN /\ ret' = Returned("register", user_data, chk.exc, <<chk.msg>>, None)
                /\ UNCHANGED <<users, nextUid>>
           ELSE IF UniqueConflict(committed, NewUser(user_data, salt))
           THEN /\ ret' = Returned("register", user_data, "IntegrityError", <<>>, None)
                /\ UNCHANGED <<users, nextUid>>
           ELSE /\ nextUid <= MaxUsers
                /\ users' = (nextUid :> NewUser(user_data, salt)) @@ users
                /\ nextUid' = nextUid + 1
                /\ ret' = Returned("register", user_data, "none", <<>>, [id |-> nextUid])
    /\ UNCHANGED <<calcs, nextCid, now, issued, req, resp, _types, DatabaseClient>>

(* UserRecord.model_validate(user): the fields the schema names *)
UserRecord(us, u) ==
    [id |-> u, username |-> us[u].username, email |-> us[u].email,
     is_active |-> us[u].is_active, is_verified |-> us[u].is_verified]

(* User.authenticate(db, username, password) *)
AuthenticateCall(username, password) ==
    /\ \E user \in (IF LoginMatches(users, username) = {} THEN {NoId}
                    ELSE LoginMatches(users, username)) :
          IF ~Authenticate(users, user, password)
          THEN /\ ret' = Returned("authenticate",
                                  [username |-> username, password |-> password],
                                  "none", <<>>, None)
               /\ UNCHANGED <<users, issued>>
          ELSE LET access == create_access_token(UuidStr(user), NoTime, now)
                   refresh == create_refresh_token(UuidStr(user), NoTime, now)
               IN  /\ Cardinality(issued \cup {access, refresh}) <= 2 * MaxLogins
                   /\ users' = [users EXCEPT ![user].last_login = now]
                   /\ issued' = issued \cup {access, refresh}
                   /\ ret' = Returned("authenticate",
                                      [username |-> username, password |-> password],
                                      "none", <<>>,
                                      [access_token |-> access, refresh_token |-> refresh,
                                       token_type |-> "bearer",
                                       expires_at |-> now + ACCESS_TOKEN_TTL,
                                       user |-> UserRecord(users', user)])
    /\ UNCHANGED <<calcs, nextUid, nextCid, now, req, resp, _types, DatabaseClient>>

-----------------------------------------------------------------------------
(* Specifications *)

Init ==
    /\ users = << >>
    /\ calcs = << >>
    /\ nextUid = 1
    /\ nextCid = 1
    /\ now = 0
    /\ issued = {}
    /\ req = [r \in Slots |-> Idle]
    /\ resp = NoResponse
    /\ _types = ImportedTypes
    /\ ret = NoCall
    /\ DatabaseClient = DatabaseClientClass

Accounts ==
    \/ Tick
    \/ \E r \in Slots, form \in RegisterForms : RegisterBegin(r, form)
    \/ \E r \in Slots, salt \in Salts : RegisterFlush(r, salt)
    \/ \E r \in Slots : RegisterCommit(r)
    \/ \E e \in {"login", "token"}, i \in LoginIdents, p \in LoginPasswords : Login(e, i, p)

(* A request that the bearer dependency rejects is answered before its    *)
(* path and body are looked at: one path and one body stand for all.      *)
Accepted(tk) == GetCurrentActiveUser(tk, users, now).status = 200
CalcIdsWith(tk) == IF Accepted(tk) THEN CalcIdInputs ELSE {UuidStr(1)}
TypesWith(tk) == IF Accepted(tk) THEN TypeInputs ELSE {"addition"}
ListsWith(tk) == IF Accepted(tk) THEN InputLists ELSE {<<2, 1>>}
BodiesWith(tk, lists) ==
    IF Accepted(tk) THEN UpdateBodies(lists) ELSE {[given |-> TRUE, inputs |-> <<2, 1>>]}

(* The store takes MaxCalcs records, those being inserted included *)
StoreHasRoom == nextCid + Cardinality({s \in Slots : req[s].pc = "post_ready"}) <= MaxCalcs

Calculations(slots) ==
    \/ \E tk \in BearerInputs : ListCalculations(tk)
    \/ \E tk \in BearerInputs : \E c \in CalcIdsWith(tk) : GetCalculation(tk, c)
    \/ \E r \in slots, tk \in BearerInputs :
          \E ty \in TypesWith(tk), l \in ListsWith(tk) :
             StoreHasRoom /\ CreateBegin(r, tk, ty, l)
    \/ \E r \in slots : CreateCommit(r)
    \/ \E r \in slots, tk \in BearerInputs :
          \E c \in CalcIdsWith(tk), b \in BodiesWith(tk, InputLists) :
             UpdateBegin(r, tk, c, b)
    \/ \E r \in slots : UpdateCommit(r)
    \/ \E r \in slots, tk \in BearerInputs :
          \E c \in CalcIdsWith(tk) : DeleteBegin(r, tk, c)
    \/ \E r \in slots : DeleteCommit(r)

(* The whole service, from the empty store *)
Next ==
    \/ Deliver
    \/ Accounts
    \/ \E u \in DOMAIN users : DeleteUser(u)
    \/ Calculations(Slots)
Spec == Init /\ [][Next]_vars

(* The account side alone: registration, login and the clock *)
NextAuth == Deliver \/ Accounts
SpecAuth == Init /\ [][NextAuth]_vars

(* The calculation side, from a state SpecAuth reaches (CalcInitReached): *)
(* ann and bob registered, ann logged in at 0 and bob at 30, the clock at *)
(* 30.                                                                    *)
Ann == [NewUser([username |-> "ann", email |-> "ann@x.io", password |-> PwdGood,
                 confirm_password |-> PwdGood], "salt") EXCEPT !.last_login = 0]
Bob == [NewUser([username |-> "bob@x.io", email |-> "bob@x.io", password |-> PwdGood,
                 confirm_password |-> PwdGood], "salt")
            EXCEPT !.last_login = ACCESS_TOKEN_TTL]

LoggedIn ==
    /\ users = (1 :> Ann) @@ (2 :> Bob)
    /\ nextUid = 3
    /\ now = ACCESS_TOKEN_TTL
    /\ issued = {create_access_token(UuidStr(1), NoTime, 0),
                 create_refresh_token(UuidStr(1), NoTime, 0),
                 create_access_token(UuidStr(2), NoTime, ACCESS_TOKEN_TTL),
                 create_refresh_token(UuidStr(2), NoTime, ACCESS_TOKEN_TTL)}
    /\ req = [r \in Slots |-> Idle]
    /\ _types = ImportedTypes
    /\ ret = NoCall
    /\ DatabaseClient = DatabaseClientClass

InitCalc ==
    /\ LoggedIn
    /\ calcs = << >>
    /\ nextCid = 1
    /\ resp = NoResponse

(* One request at a time, with the clock and user deletion *)
NextCalc ==
    \/ Deliver
    \/ Tick
    \/ \E u \in DOMAIN users : DeleteUser(u)
    \/ Calculations({"r1"})
SpecCalc == InitCalc /\ [][NextCalc]_vars

(* Two requests at a time on one stored record: bob's addition of 2 and  *)
(* 1, a state SpecCalc reaches (RaceInitReached).                        *)
Stored == [user_id |-> 2, type |-> "addition", inputs |-> <<2, 1>>, result |-> <<3, 1>>]

(* The operands the two writers send: two lists of one sum, and another *)
RaceLists == InputLists \cup {<<1, 2>>}

InitRace ==
    /\ LoggedIn
    /\ calcs = (1 :> Stored)
    /\ nextCid = 2
    /\ resp = NoResponse

NextRace ==
    \/ Deliver
    \/ \E tk \in BearerInputs : \E c \in CalcIdsWith(tk) : GetCalculation(tk, c)
    \/ \E r \in Slots, tk \in BearerInputs :
          \E c \in CalcIdsWith(tk), b \in BodiesWith(tk, RaceLists) :
             UpdateBegin(r, tk, c, b)
    \/ \E r \in Slots : UpdateCommit(r)
    \/ \E r \in Slots, tk \in BearerInputs :
          \E c \in CalcIdsWith(tk) : DeleteBegin(r, tk, c)
    \/ \E r \in Slots : DeleteCommit(r)
SpecRace == InitRace /\ [][NextRace]_vars

(* The calculation factory called directly, on the store InitCalc holds: *)
(* the registry, create, get_result and the commit of a new record.      *)
NextFactory ==
    \/ \E c \in ClassInputs : RegisterClass(c)
    \/ \E t \in FactoryTags, o \in FactoryOwners, l \in FactoryLists : CreateCall(t, o, l)
    \/ GetResultCall
    \/ \E o \in FactoryOwners : SaveNew("addition", o, <<1, 2>>)
SpecFactory == InitCalc /\ [][NextFactory]_vars

(* User.register and User.authenticate called directly, from the empty   *)
(* store, with the clock                                                  *)
NextUser ==
    \/ Tick
    \/ \E d \in UserData, salt \in Salts : RegisterCall(d, salt)
    \/ \E i \in LoginIdents, p \in LoginPasswords : AuthenticateCall(i, p)
SpecUser == Init /\ [][NextUser]_vars

(* The browse scenario of the end-to-end tests: a logged-in user posts    *)
(* one calculation of each variant on the operands 8 and 4, in any order, *)
(* and lists their calculations in between.                               *)
HistoryTypes == {"Addition", "Subtraction", "Multiplication", "Division", "Modulus"}
HistoryInputs == <<8, 4>>
HistoryBearers == {create_access_token(UuidStr(2), NoTime, ACCESS_TOKEN_TTL)}

Posted(type) ==
    \/ \E c \in DOMAIN calcs : calcs[c].type = Lower(type)
    \/ \E r \in Slots : req[r].pc = "post_ready" /\ req[r].calc.type = Lower(type)

NextHistory ==
    \/ Deliver
    \/ \E tk \in HistoryBearers, ty \in HistoryTypes :
          ~Posted(ty) /\ CreateBegin("r1", tk, ty, HistoryInputs)
    \/ CreateCommit("r1")
    \/ \E tk \in HistoryBearers : ListCalculations(tk)
SpecHistory == InitCalc /\ [][NextHistory]_vars

(* DatabaseClient(): __new__, then __init__ on what it returned *)
Construct(url_ok) ==
    /\ LET made == New(DatabaseClient)
           out == Initialize(made, made._instance, url_ok)
       IN  /\ Cardinality(DOMAIN made.made) <= MaxClients
           /\ DatabaseClient' = out.cls
           /\ ret' = Returned("DatabaseClient", None, out.exc, <<>>,
                              IF out.exc = "none" THEN [id |-> made._instance] ELSE None)
    /\ UNCHANGED <<users, calcs, nextUid, nextCid, now, issued, req, resp, _types>>

(* DatabaseClient._instance = None *)
ResetInstance ==
    /\ DatabaseClient' = [DatabaseClient EXCEPT !._instance = NoObject]
    /\ ret' = Returned("setattr", [name |-> "_instance"], "none", <<>>, None)
    /\ UNCHANGED <<users, calcs, nextUid, nextCid, now, issued, req, resp, _types>>

(* DatabaseClient._is_configured = False *)
ResetConfigured ==
    /\ DatabaseClient' = [DatabaseClient EXCEPT !._is_configured = FALSE]
    /\ ret' = Returned("setattr", [name |-> "_is_configured"], "none", <<>>, None)
    /\ UNCHANGED <<users, calcs, nextUid, nextCid, now, issued, req, resp, _types>>

(* The instances a construction has returned *)
Clients == {o \in DOMAIN DatabaseClient.made : DatabaseClient.made[o].session_agent # NoObject}

SessionsOpen(cls) ==
    LET RECURSIVE Sum(_)
        Sum(S) == IF S = {} THEN 0
                  ELSE LET a == CHOOSE x \in S : TRUE IN cls.open[a] + Sum(S \ {a})
    IN  Sum(DOMAIN cls.open)

(* next(self.get_session()): a session from the instance's factory *)
GetSession(self) ==
    /\ SessionsOpen(DatabaseClient) < MaxSessions
    /\ LET agent == DatabaseClient.made[self].session_agent
       IN  /\ DatabaseClient' = [DatabaseClient EXCEPT !.open[agent] = @ + 1]
           /\ ret' = Returned("get_session", [self |-> self], "none", <<>>, [bind |-> agent])
    /\ UNCHANGED <<users, calcs, nextUid, nextCid, now, issued, req, resp, _types>>

(* The generator is closed: session.close() in its finally clause *)
CloseSession(agent) ==
    /\ DatabaseClient.open[agent] > 0
    /\ DatabaseClient' = [DatabaseClient EXCEPT !.open[agent] = @ - 1]
    /\ ret' = Returned("close", [bind |-> agent], "none", <<>>, None)
    /\ UNCHANGED <<users, calcs, nextUid, nextCid, now, issued, req, resp, _types>>

(* The client constructed and used, and its class attributes reset, in    *)
(* any order                                                              *)
NextClient ==
    \/ \E url_ok \in BOOLEAN : Construct(url_ok)
    \/ ResetInstance
    \/ ResetConfigured
    \/ \E o \in Clients : GetSession(o)
    \/ \E a \in DOMAIN DatabaseClient.open : CloseSession(a)
SpecClient == Init /\ [][NextClient]_vars


(* users.is_active set on a stored row, by whoever administers the        *)
(* database: no endpoint writes the column after registration             *)
SetActive(u, is_active) ==
    /\ resp = NoResponse
    /\ u \in DOMAIN users
    /\ users[u].is_active # is_active
    /\ users' = [users EXCEPT ![u].is_active = is_active]
    /\ UNCHANGED <<calcs, nextUid, nextCid, now, issued, req, resp, _types, ret, DatabaseClient>>

(* The /calculations endpoints called with the tokens issued at login,    *)
(* while users are deactivated and reactivated                            *)
ActiveLists == {<<2, 1>>}

NextActive ==
    \/ Deliver
    \/ \E u \in DOMAIN users, b \in BOOLEAN : SetActive(u, b)
    \/ \E tk \in issued : ListCalculations(tk)
    \/ \E tk \in issued : \E c \in CalcIdsWith(tk) : GetCalculation(tk, c)
    \/ \E tk \in issued : \E l \in ActiveLists :
          StoreHasRoom /\ CreateBegin("r1", tk, "addition", l)
    \/ CreateCommit("r1")
    \/ \E tk \in issued : \E c \in CalcIdsWith(tk), b \in BodiesWith(tk, ActiveLists) :
          UpdateBegin("r1", tk, c, b)
    \/ UpdateCommit("r1")
    \/ \E tk \in issued : \E c \in CalcIdsWith(tk) : DeleteBegin("r1", tk, c)
    \/ DeleteCommit("r1")
SpecActive == InitCalc /\ [][NextActive]_vars

(* User.register called with passwords that break the rules of            *)
(* PasswordMixin one at a time and two at a time                           *)
PwdNoUpper == <<"e", "c", "u", "r", "e", "e", "1", "2">>
PwdLowerOnly == <<"e", "c", "u", "r", "e", "e", "e", "e">>

RuleData ==
    [username : Usernames, email : Emails,
     password : {<<>>, PwdShort, PwdSeven, PwdGood, PwdOther, PwdNoUpper, PwdLowerOnly,
                 <<"e", "c", "u", "r", "e", "1", "2">>,             \* seven, no uppercase
                 <<"S", "O", "S", "O", "S", "O", "1", "2">>,        \* no lowercase
                 <<"S", "e", "c", "u", "r", "e", "e", "e">>,        \* no digit
                 <<"S", "O", "S", "O", "S", "O", "S", "O">>},       \* uppercase only
     confirm_password : {PwdGood, PwdNoUpper}]

NextRules ==
    \E d \in RuleData, salt \in Salts : RegisterCall(d, salt)
SpecRules == Init /\ [][NextRules]_vars

(* GET, PUT and DELETE, two requests at a time, on two stored records:    *)
(* bob's addition and ann's division of 2 and 1, which SpecCalc reaches.  *)
(* The operands sent are none that is stored.                             *)
StoredDivision ==
    [user_id |-> 1, type |-> "division", inputs |-> <<2, 1>>, result |-> <<2, 1>>]

PutLists == {<<2, 0>>, <<4, 2>>}

InitPut ==
    /\ LoggedIn
    /\ calcs = (1 :> Stored) @@ (2 :> StoredDivision)
    /\ nextCid = 3
    /\ resp = NoResponse

NextPut ==
    \/ Deliver
    \/ \E tk \in issued : \E c \in CalcIdsWith(tk) : GetCalculation(tk, c)
    \/ \E r \in Slots, tk \in issued :
          \E c \in CalcIdsWith(tk), b \in BodiesWith(tk, PutLists) : UpdateBegin(r, tk, c, b)
    \/ \E r \in Slots : UpdateCommit(r)
    \/ \E r \in Slots, tk \in issued : \E c \in CalcIdsWith(tk) : DeleteBegin(r, tk, c)
    \/ \E r \in Slots : DeleteCommit(r)
SpecPut == InitPut /\ [][NextPut]_vars
-----------------------------------------------------------------------------
(* The starting states of SpecCalc and SpecRace are states the service    *)
(* reaches: InitCalc in SpecAuth, InitRace in SpecCalc.                   *)

CalcInitReached == InitCalc
RaceInitReached == InitRace

-----------------------------------------------------------------------------
(* A response has just been produced by this step *)
Answered == resp = NoResponse /\ resp' # NoResponse

(* C1: in every reachable state, whatever the interleaving of concurrent  *)
(* registrations, no two stored users share a username and no two share   *)
(* an email.                                                              *)
UsersUnique ==
    \A u \in DOMAIN users, v \in DOMAIN users :
        u # v => /\ users[u].username # users[v].username
                 /\ users[u].email # users[v].email

(* A registration that passed its pre-check while the user it conflicts   *)
(* with has since been committed.                                         *)
RegistrationRaceLost ==
    \E r \in Slots, u \in DOMAIN users :
        /\ req[r].pc = "reg_checked"
        /\ UniqueConflict({users[u]}, NewUser(req[r].form, "salt"))

(* C2: when the uniqueness constraint rejects a registration whose        *)
(* pre-check had passed, the caller is answered 400 with a message, not   *)
(* a server error.                                                        *)
ConstraintRejectionIs400 ==
    (resp.op = "register" /\ resp.exc = "IntegrityError")
        => (resp.status = 400 /\ resp.detail # <<"Internal Server Error">>)

(* C4: a login that cannot be authenticated, whether no user matches the  *)
(* identifier or the matching user's password is wrong, is answered with  *)
(* one and the same 401; no token is issued and no last_login changes.    *)
Unauthenticated(ident, password) ==
    \A u \in LoginMatches(users, ident) : ~verify_password(password, users[u].password)

InvalidLogin(endpoint) ==
    Response(endpoint, NoBearer, NoPath, 401, "none",
             <<"Invalid username or password">>, NoId, NoId, {})

FailedLoginUniform ==
    [][\A e \in {"login", "token"}, i \in LoginIdents, p \in LoginPasswords :
          (Login(e, i, p) /\ Unauthenticated(i, p))
              => (resp' = InvalidLogin(e) /\ issued' = issued /\ users' = users)]_vars

(* A login has just failed while a user who logged in earlier is stored *)
FailedLoginSeen ==
    /\ resp = InvalidLogin("login")
    /\ \E u \in DOMAIN users : users[u].last_login # NoTime

(* C5: for every user id, a freshly minted access token verifies to that  *)
(* id until its expiry has passed and to None afterwards, and to None     *)
(* when its content or signature has been altered.                        *)
MintTimes == {t \in 0..now : t % TickStep = 0}

Altered(token) ==
    (Tampered(token, 1..MaxUsers)
        \cup {[token EXCEPT !.mac.key = "attacker-key"],
              [token EXCEPT !.mac.payload.exp = @ + 1]}) \ {token}

TokenRoundTrip ==
    \A i \in 1..MaxUsers, t \in MintTimes :
        LET token == create_access_token(UuidStr(i), NoTime, t)
        IN  /\ verify_token(token, now)
                = [exc |-> "none", id |-> IF now <= token.payload.exp THEN i ELSE NoId]
            /\ \A bad \in Altered(token) :
                   verify_token(bad, now) = [exc |-> "none", id |-> NoId]

(* Of the access tokens issued, one has expired and one is still good *)
IssuedExpiredAndLive ==
    \E old \in issued, new \in issued :
        /\ old.mac.key = JWT_SECRET /\ new.mac.key = JWT_SECRET
        /\ old.payload.exp < now /\ verify_token(old, now).id = NoId
        /\ now <= new.payload.exp /\ verify_token(new, now).id # NoId

(* C6: verify_token raises nothing, whatever the token: malformed,       *)
(* wrongly signed, expired, without a subject, or with a subject that is  *)
(* no user id, it returns None, and get_current_user answers 401.         *)
SubjectInputs ==
    {UuidStr(i) : i \in 1..MaxUsers} \cup IdStrings({1})
    \cup {EmptyStr, AbsentClaim, IntClaim}

TokenStrings ==
    {Jwt(k, s, e) : k \in {JWT_SECRET, "attacker-key"},
                    s \in SubjectInputs,
                    e \in {NoTime, now - 1, now + DefaultAccessDelta}}
    \cup {Garbage} \cup issued

InvalidToken(token) ==
    \/ token.kind # "jwt"
    \/ token.mac # Sign(JWT_SECRET, token.payload)
    \/ (token.payload.exp # NoTime /\ token.payload.exp < now)
    \/ token.payload.sub.kind # "str"
    \/ token.payload.sub.form \notin {"canonical", "urn"}

VerifyTokenNeverRaises ==
    \A token \in TokenStrings :
        LET token_data == verify_token(token, now)
            current_user == GetCurrentUser(token, users, now)
        IN  /\ token_data.exc = "none"
            /\ current_user.status \in {200, 401}
            /\ InvalidToken(token) => (token_data.id = NoId /\ current_user.status = 401)

(* A token under the right key whose subject is text that is no uuid, at  *)
(* a time when an issued token has expired                                *)
OddSubjectRejected ==
    /\ \E token \in TokenStrings :
          /\ token.mac = Sign(JWT_SECRET, token.payload)
          /\ ParseUUID(token.payload.sub).exc = "ValueError"
          /\ GetCurrentUser(token, users, now).status = 401
    /\ \E token \in issued :
          token.payload.exp < now /\ GetCurrentUser(token, users, now).status = 401

-----------------------------------------------------------------------------
(* The request just answered came from an authenticated caller and named  *)
(* a stored record of another owner.                                      *)
OnAnothersRecord ==
    /\ Answered
    /\ resp'.op \in {"get", "update", "delete"}
    /\ resp'.uid # NoId
    /\ ParseUUID(resp'.path).id \in DOMAIN calcs
    /\ calcs[ParseUUID(resp'.path).id].user_id # resp'.uid

ListShowsOwn ==
    (Answered /\ resp'.op = "list" /\ resp'.status = 200)
        => resp'.body = {CalculationRecord(calcs, c) :
                            c \in {x \in DOMAIN calcs : calcs[x].user_id = resp'.uid}}

CalcOps == {"list", "get", "create", "update", "delete"}

Unauthorised(token) ==
    \/ token.kind # "jwt"
    \/ token.mac # Sign(JWT_SECRET, token.payload)
    \/ token.payload.exp < now
    \/ ParseUUID(token.payload.sub).id \notin DOMAIN users

BadTokenRejected ==
    [][/\ (Answered /\ resp'.op \in CalcOps /\ req' = req /\ Unauthorised(resp'.bearer))
             => (resp'.status = 401 /\ resp'.body = {} /\ calcs' = calcs)
       /\ \A r \in Slots :
             /\ (req[r].pc = "idle" /\ req'[r].pc # "idle" /\ req'[r].pc # "reg_checked")
                   => ~Unauthorised(req'[r].bearer)
             /\ (req[r].pc # "idle" /\ req[r].uid \notin DOMAIN users /\ req'[r] # req[r])
                   => calcs' = calcs]_vars

(* A token that was good is refused after its user was deleted, while     *)
(* another user's record is stored                                        *)
DeletedUsersTokenRefused ==
    /\ resp.op \in CalcOps
    /\ resp.status = 401
    /\ resp.bearer \in issued
    /\ resp.bearer.mac.key = JWT_SECRET
    /\ now <= resp.bearer.payload.exp
    /\ ParseUUID(resp.bearer.payload.sub).id \notin DOMAIN users
    /\ calcs # << >>

(* C8: every stored calculation has a type of the five, at least two      *)
(* operands and, if a division or a modulus, no zero after the first.     *)
StoredWellFormed ==
    \A c \in DOMAIN calcs :
        /\ calcs[c].type \in {"addition", "subtraction", "multiplication",
                              "division", "modulus"}
        /\ Len(calcs[c].inputs) >= 2
        /\ calcs[c].type \in {"division", "modulus"}
              => \A k \in 2..Len(calcs[c].inputs) : calcs[c].inputs[k] # 0

(* A PUT that would put a zero divisor into a stored division or modulus *)
(* has just been refused, and the record is still stored                  *)
ZeroDivisorPutRefused ==
    /\ resp.op = "update"
    /\ resp.exc = "ValueError"
    /\ resp.cid \in DOMAIN calcs
    /\ calcs[resp.cid].type \in {"division", "modulus"}

(* C9: a ValueError raised by the factory or by get_result in POST or PUT *)
(* /calculations is answered 400 with the error's message.                *)
ValueErrorIs400 ==
    (resp.op \in {"create", "update"} /\ resp.exc = "ValueError")
        => (resp.status = 400 /\ resp.detail # <<"Internal Server Error">>)

(* C10: each stored calculation's result is get_result of its stored type *)
(* and operands.                                                          *)
ResultMatchesInputs ==
    \A c \in DOMAIN calcs :
        LET res == GetResult(calcs[c].type, calcs[c].inputs)
        IN  res.exc = "none" /\ res.value = calcs[c].result

-----------------------------------------------------------------------------
(* The calculation model called directly (SpecFactory) *)

(* ((a1 op a2) op a3) ...: the value after the first k operands is the    *)
(* value after the first k - 1, op the k-th                               *)
LeftFold(type, inputs) ==
    LET f[k \in 1..Len(inputs)] ==
            IF k = 1 THEN Rat(inputs[1], 1) ELSE Apply(type, f[k - 1], inputs[k])
    IN  f[Len(inputs)]

(* The spec's and some further examples, as exact fractions *)
FoldExamples ==
    {<<"division", <<6, 3>>, <<2, 1>>>>, <<"modulus", <<6, 3>>, <<0, 1>>>>,
     <<"addition", <<6, 3>>, <<9, 1>>>>, <<"subtraction", <<6, 3>>, <<3, 1>>>>,
     <<"multiplication", <<6, 3>>, <<18, 1>>>>,
     <<"subtraction", <<5, 3, 1>>, <<1, 1>>>>, <<"division", <<7, 4, 3>>, <<7, 12>>>>,
     <<"modulus", <<7, 4, 3>>, <<0, 1>>>>, <<"modulus", <<-7, 3>>, <<2, 1>>>>,
     <<"division", <<0, 2>>, <<0, 1>>>>, <<"addition", <<12, 2, 0, 2>>, <<16, 1>>>>}

(* C11: get_result of a record of one of the five variants, for division  *)
(* and modulus when no operand after the first is zero, returns the       *)
(* strict left-to-right fold of the variant's operator over the operands, *)
(* seeded with the first; the value is a function of the type and the     *)
(* operands alone (the owner plays no part), and is the expected number   *)
(* in each of the examples.                                               *)
GetResultIsLeftFold ==
    (/\ ret.op = "get_result"
     /\ ret.args.type \in CalculationType
     /\ ret.args.type \in {"division", "modulus"} => ~ZeroAfterFirst(ret.args.inputs))
    => /\ ret.exc = "none"
       /\ ret.value.result = LeftFold(ret.args.type, ret.args.inputs)
       /\ \A e \in FoldExamples :
             (ret.args.type = e[1] /\ ret.args.inputs = e[2]) => ret.value.result = e[3]

(* Subtraction of 5, 3, 1 came out as (5 - 3) - 1 = 1                    *)
FoldOrderSeen ==
    /\ ret.op = "get_result"
    /\ ret.exc = "none"
    /\ ret.args.type = "subtraction"
    /\ ret.args.inputs = <<5, 3, 1>>
    /\ ret.value.result = <<1, 1>>

(* C12: get_result of a division record raises ValueError 'Zero divisor   *)
(* input invalid for Division', and of a modulus record ValueError 'Zero  *)
(* divisor input invalid for Modulo Division', exactly when an operand    *)
(* after the first is zero, whatever the first operand is; nothing else   *)
(* is raised (no fold step has divided by zero), and addition,            *)
(* subtraction and multiplication raise nothing.                          *)
ZeroDivisorCheck ==
    (ret.op = "get_result" /\ ret.args.type \in CalculationType)
    => LET inputs == ret.args.inputs
           zero == \E i \in 2..Len(inputs) : inputs[i] = 0
           label == IF ret.args.type = "division" THEN "Division" ELSE "Modulo Division"
       IN  IF ret.args.type \in {"division", "modulus"}
           THEN IF zero
                THEN /\ ret.exc = "ValueError"
                     /\ ret.msg = <<"Zero divisor input invalid for " \o label>>
                ELSE ret.exc = "none"
           ELSE ret.exc = "none"

(* A modulus record with a zero in third place was refused *)
ZeroDivisorRaised ==
    /\ ret.op = "get_result"
    /\ ret.args.type = "modulus"
    /\ ret.args.inputs = <<12, 2, 0, 2>>
    /\ ret.exc = "ValueError"
    /\ ret.msg = <<"Zero divisor input invalid for Modulo Division">>

(* C13: Calculation.create with a tag whose lowercase form is not in the  *)
(* registry raises ValueError 'Unsupported calculation type: ' followed   *)
(* by the tag as given, for every operand list, the empty and the         *)
(* one-element list included, and returns no record.                      *)
UnknownTagRefused ==
    (ret.op = "create" /\ Lower(ret.args.calc_type) \notin DOMAIN _types)
    => /\ ret.exc = "ValueError"
       /\ ret.msg = <<"Unsupported calculation type: ", ret.args.calc_type>>
       /\ ret.value = NoCalc

(* An unknown tag with a one-element list was refused for its tag *)
UnknownTagShortListSeen ==
    /\ ret.op = "create"
    /\ ret.args.calc_type = "bad_type"
    /\ ret.args.inputs = <<0>>
    /\ ret.exc = "ValueError"
    /\ ret.msg = <<"Unsupported calculation type: ", "bad_type">>

(* C14: for a tag that is one of the five registered tags in any letter   *)
(* case, Calculation.create with fewer than two operands raises           *)
(* ValueError '{tag} requires at least 2 operands' with the tag as given  *)
(* and returns no record; with two or more it returns a record of that    *)
(* variant with the given owner and the operands in the given order, no   *)
(* result yet; in both cases the calculations table is left as it was.    *)
CreateBuildsVariant ==
    [][(ret'.op = "create" /\ Lower(ret'.args.calc_type) \in CalculationType)
       => /\ IF Len(ret'.args.inputs) < 2
             THEN /\ ret'.exc = "ValueError"
                  /\ ret'.msg = <<ret'.args.calc_type, " requires at least 2 operands">>
                  /\ ret'.value = NoCalc
             ELSE /\ ret'.exc = "none"
                  /\ ret'.value = [user_id |-> ret'.args.user_id,
                                   type |-> Lower(ret'.args.calc_type),
                                   inputs |-> ret'.args.inputs, result |-> NoResult]
          /\ calcs' = calcs
          /\ nextCid' = nextCid]_vars

(* A registered tag in capitals with one operand was refused, the message *)
(* spelling the tag as given, after a record had been stored              *)
ShortListRefused ==
    /\ ret.op = "create"
    /\ ret.args.calc_type = "MULTIPLICATION"
    /\ ret.args.inputs = <<0>>
    /\ ret.exc = "ValueError"
    /\ ret.msg = <<"MULTIPLICATION", " requires at least 2 operands">>
    /\ calcs # << >>

(* C15: Calculation.register of a class outside the Calculation family    *)
(* raises TypeError 'Registered class must inherit from Calculation',     *)
(* whether the class is named like a variant or not, and leaves the       *)
(* registry as it was; the registry only ever holds classes of the        *)
(* family, and every record create returns is of a class of the family.   *)
BadRegistrationRefused ==
    [][/\ (ret'.op = "register" /\ ~ret'.args.calc_cls.family)
          => /\ ret'.exc = "TypeError"
             /\ ret'.msg = <<"Registered class must inherit from Calculation">>
             /\ _types' = _types
       /\ \A tag \in DOMAIN _types' : _types'[tag].family
       /\ (ret'.op = "create" /\ ret'.exc = "none")
          => \E c \in Variants \cup {CalculationBase} : ret'.value.type = c.identity]_vars

(* The class outside the family that is named Addition was refused, and   *)
(* the tag 'addition' still resolves to the variant                       *)
ImpostorRefused ==
    /\ ret.op = "register"
    /\ ret.args.calc_cls = Impostor
    /\ ret.exc = "TypeError"
    /\ _types["addition"] = Addition

-----------------------------------------------------------------------------
(* The user model called directly (SpecUser) *)

(* A call was made in this step (the clock's step makes none) *)
Called(op) == ret' # ret /\ ret'.op = op

(* A stored user has this username or this email *)
Collides(us, user_data) ==
    \E u \in DOMAIN us :
       us[u].username = user_data.username \/ us[u].email = user_data.email

(* C16 as stated: User.register with a username or an email that a stored *)
(* user has raises ValueError 'Username or email already exists' and      *)
(* leaves the users table as it was.                                      *)
DuplicateAlwaysNamed ==
    [][(Called("register") /\ Collides(users, ret'.args))
       => /\ ret'.exc = "ValueError"
          /\ ret'.msg = <<"Username or email already exists">>
          /\ users' = users]_vars

(* C16: User.register with a password of six or more characters and a     *)
(* username or an email that a stored user has raises ValueError          *)
(* 'Username or email already exists', the same whichever field collided, *)
(* and leaves the users table as it was.                                  *)
DuplicateRefused ==
    [][(/\ Called("register")
        /\ Len(ret'.args.password) >= 6
        /\ Collides(users, ret'.args))
       => /\ ret'.exc = "ValueError"
          /\ ret'.msg = <<"Username or email already exists">>
          /\ users' = users]_vars

(* A registration whose email alone is a stored user's was refused *)
EmailCollisionRefused ==
    /\ ret.op = "register"
    /\ ret.exc = "ValueError"
    /\ ret.msg = <<"Username or email already exists">>
    /\ \E u \in DOMAIN users : users[u].email = ret.args.email
    /\ \A u \in DOMAIN users : users[u].username # ret.args.username

(* C17: User.register with a password of fewer than six characters (or    *)
(* none) raises ValueError 'Password must contain at least six            *)
(* characters', also when the username or email is a stored user's,       *)
(* and adds no user.                                                      *)
ShortPasswordRefused ==
    [][(Called("register") /\ Len(ret'.args.password) < 6)
       => /\ ret'.exc = "ValueError"
          /\ ret'.msg = <<"Password must contain at least six characters">>
          /\ users' = users
          /\ nextUid' = nextUid]_vars

(* A registration with a short password and a stored user's username was  *)
(* refused for its password                                               *)
ShortPasswordOnDuplicate ==
    /\ ret.op = "register"
    /\ ret.args.password = PwdShort
    /\ \E u \in DOMAIN users : users[u].username = ret.args.username
    /\ ret.msg = <<"Password must contain at least six characters">>

(* C18: a successful User.register adds one user, active, not verified,   *)
(* never logged in, whose password field is a bcrypt hash that verifies   *)
(* the submitted password and no other; no stored user's password field   *)
(* holds anything but a hash.                                             *)
RegisteredUserFresh ==
    [][(Called("register") /\ ret'.exc = "none")
       => LET id == ret'.value.id
          IN  /\ id \notin DOMAIN users
              /\ DOMAIN users' = DOMAIN users \cup {id}
              /\ users'[id].username = ret'.args.username
              /\ users'[id].email = ret'.args.email
              /\ users'[id].is_active
              /\ ~users'[id].is_verified
              /\ users'[id].last_login = NoTime
              /\ verify_password(ret'.args.password, users'[id].password)
              /\ \A p \in {PwdShort, PwdSeven, PwdGood, PwdOther} \ {ret'.args.password} :
                    ~verify_password(p, users'[id].password)
              /\ \A u \in DOMAIN users' : users'[u].password.scheme = "bcrypt"]_vars

(* A second user was registered *)
SecondUserRegistered ==
    /\ ret.op = "register"
    /\ ret.exc = "none"
    /\ ret.value.id = 2
    /\ DOMAIN users = {1, 2}
    /\ users[2].last_login = NoTime

(* C19 as stated: User.authenticate with the username or the email of a   *)
(* stored user and that user's password returns an AuthToken, bearer,     *)
(* whose access token verifies to that user's id and whose user snapshot  *)
(* is of that user and has no password field, and that user's last_login  *)
(* is set to the time of the call.                                        *)
AuthenticateSucceeds ==
    [][Called("authenticate")
       => \A u \in DOMAIN users :
             (/\ users[u].username = ret'.args.username
                 \/ users[u].email = ret'.args.username
              /\ verify_password(ret'.args.password, users[u].password))
             => /\ ret'.exc = "none"
                /\ "access_token" \in DOMAIN ret'.value
                /\ ret'.value.token_type = "bearer"
                /\ verify_token(ret'.value.access_token, now).id = u
                /\ ret'.value.user.id = u
                /\ "password" \notin DOMAIN ret'.value.user
                /\ users'[u].last_login = now]_vars

-----------------------------------------------------------------------------
(* C20: every stored calculation's owner is a stored user, before and     *)
(* after every step; a step that deletes a user leaves exactly the        *)
(* calculations of the other owners, unaltered; and the commit of a new   *)
(* calculation whose owner is not stored raises IntegrityError and leaves *)
(* the calculations table as it was.                                      *)
OwnersStored ==
    [][/\ \A c \in DOMAIN calcs : calcs[c].user_id \in DOMAIN users
       /\ \A c \in DOMAIN calcs' : calcs'[c].user_id \in DOMAIN users'
       /\ \A u \in DOMAIN users \ DOMAIN users' :
             /\ DOMAIN calcs' = {c \in DOMAIN calcs : calcs[c].user_id # u}
             /\ \A c \in DOMAIN calcs' : calcs'[c] = calcs[c]
       /\ \A r \in Slots :
             (/\ req[r].pc = "post_ready"
              /\ req'[r].pc = "idle"
              /\ req[r].calc.user_id \notin DOMAIN users)
             => /\ resp'.op = "create"
                /\ resp'.exc = "IntegrityError"
                /\ calcs' = calcs]_vars

(* A new calculation's commit failed on the foreign key, its owner        *)
(* deleted meanwhile, with another user's record still stored             *)
OrphanCommitRefused ==
    /\ resp.op = "create"
    /\ resp.exc = "IntegrityError"
    /\ resp.uid \notin DOMAIN users
    /\ calcs # << >>

(* ---------------------------------------------------------------------- *)
(* C21  After the same user has posted an addition, a subtraction, a      *)
(* multiplication, a division and a modulus on the operands 8 and 4, in   *)
(* that order, GET /calculations shows five records, in the order of      *)
(* their creation, with the results 12, 4, 32, 2 and 0.                   *)
(* The query has no ORDER BY: the five records and their results are      *)
(* shown, but the order is whatever the database returns.                 *)
HistorySequence == <<"addition", "subtraction", "multiplication", "division", "modulus">>
HistoryResults == <<Rat(12, 1), Rat(4, 1), Rat(32, 1), Rat(2, 1), Rat(0, 1)>>

HistoryPosted ==
    /\ DOMAIN calcs = 1..Len(HistorySequence)
    /\ \A c \in DOMAIN calcs :
          /\ calcs[c].type = HistorySequence[c]
          /\ calcs[c].inputs = HistoryInputs

(* The records of a list response, in the order it shows them *)
Listed(r) == [i \in 1..Len(r.order) |-> CHOOSE b \in r.body : b.id = r.order[i]]

HistoryListed == resp.op = "list" /\ resp.status = 200 /\ HistoryPosted

HistoryInCreationOrder ==
    HistoryListed =>
        /\ Len(resp.order) = Len(HistorySequence)
        /\ [i \in 1..Len(resp.order) |-> Listed(resp)[i].type] = HistorySequence
        /\ [i \in 1..Len(resp.order) |-> Listed(resp)[i].result] = HistoryResults

(* What does hold: the same five records, each with its result *)
HistoryShown ==
    HistoryListed =>
        /\ Len(resp.order) = Len(HistorySequence)
        /\ \A i \in 1..Len(HistorySequence) :
              \E j \in 1..Len(resp.order) :
                 /\ Listed(resp)[j].type = HistorySequence[i]
                 /\ Listed(resp)[j].result = HistoryResults[i]


(* ---------------------------------------------------------------------- *)
(* C22  DatabaseClient is a singleton: a construction returns the         *)
(* instance the class holds, configured; an instance that has its engine  *)
(* and session factory keeps them through every later construction,       *)
(* reset and session; and a construction returns a new instance, with a   *)
(* session factory no earlier instance has, only when the class's         *)
(* _instance is None and its _is_configured is False.                     *)
SingletonConfiguredOnce ==
    [][/\ \A o \in Clients : DatabaseClient'.made[o] = DatabaseClient.made[o]
       /\ (ret'.op = "DatabaseClient" /\ ret'.exc = "none") =>
             LET o == ret'.value.id
             IN  /\ o = DatabaseClient'._instance
                 /\ DatabaseClient._instance # NoObject => o = DatabaseClient._instance
                 /\ DatabaseClient'.made[o].session_agent # NoObject
                 /\ DatabaseClient'.made[o].engine # NoObject
                 /\ o \notin DOMAIN DatabaseClient.made =>
                       /\ DatabaseClient._instance = NoObject
                       /\ DatabaseClient._is_configured = FALSE
                       /\ \A p \in Clients :
                             DatabaseClient.made[p].session_agent
                                # DatabaseClient'.made[o].session_agent]_vars

(* Witness: after a reset, a construction has returned a second instance, *)
(* whose session factory is not the first one's                           *)
SecondClientAfterReset ==
    /\ ret.op = "DatabaseClient"
    /\ ret.exc = "none"
    /\ ret.value.id = 2
    /\ {1, 2} \subseteq Clients
    /\ DatabaseClient.made[1].session_agent # DatabaseClient.made[2].session_agent

(* ---------------------------------------------------------------------- *)
(* C23 as stated: in every state reached through User.register, at most   *)
(* one stored user has a username or an email equal to any given login    *)
(* identifier.                                                            *)
(* register refuses a username already stored as a username and an email  *)
(* already stored as an email; a username equal to another user's email   *)
(* passes, and then the identifier matches two users.                     *)
MatchingUsers(us, ident) ==
    {u \in DOMAIN us : us[u].username = ident \/ us[u].email = ident}

LoginLookupUnambiguous ==
    \A ident \in LoginIdents : Cardinality(MatchingUsers(users, ident)) <= 1

(* ---------------------------------------------------------------------- *)
(* C24  verify_token returns None for every token create_refresh_token    *)
(* mints, whatever its subject, its lifetime and the time it was minted,  *)
(* expired or not; and a /calculations request that presents a minted     *)
(* refresh token as its bearer is answered 401.                           *)
RefreshTtls == {NoTime, 1, DefaultAccessDelta, DefaultRefreshDelta}

RefreshTokenRefused ==
    /\ \A sub \in SubjectInputs, d \in RefreshTtls, t \in MintTimes :
          verify_token(create_refresh_token(sub, d, t), now) = [exc |-> "none", id |-> NoId]
    /\ (/\ resp.op \in CalcOps
        /\ resp.bearer \in {create_refresh_token(UuidStr(i), NoTime, t) :
                               i \in 1..MaxUsers, t \in MintTimes})
          => /\ resp.status = 401
             /\ resp.uid = NoId

(* Witness: the refresh token issued to a stored user, not yet expired,   *)
(* was presented and refused                                              *)
LiveRefreshTokenRefused ==
    /\ resp.op \in CalcOps
    /\ resp.status = 401
    /\ resp.bearer \in issued
    /\ resp.bearer.mac.key = JWT_REFRESH_SECRET
    /\ now <= resp.bearer.payload.exp
    /\ ParseUUID(resp.bearer.payload.sub).id \in DOMAIN users

(* ---------------------------------------------------------------------- *)
(* C25  A /calculations request whose token is valid and names a stored   *)
(* user who is inactive is answered 400 'Inactive user' by the            *)
(* dependency: the handler does not start, nothing is shown and no record *)
(* is made, changed or deleted.                                           *)
InactiveBearer(token) ==
    /\ token.kind = "jwt"
    /\ token.mac = Sign(JWT_SECRET, token.payload)
    /\ now <= token.payload.exp
    /\ ParseUUID(token.payload.sub).id \in DOMAIN users
    /\ ~users[ParseUUID(token.payload.sub).id].is_active

InactiveUserRejected ==
    [][/\ (Answered /\ resp'.op \in CalcOps /\ req' = req /\ InactiveBearer(resp'.bearer))
             => /\ resp'.status = 400
                /\ resp'.detail = <<"Inactive user">>
                /\ resp'.body = {}
                /\ calcs' = calcs
       /\ \A r \in Slots :
             (req[r].pc = "idle" /\ req'[r].pc # "idle") => ~InactiveBearer(req'[r].bearer)]_vars

(* Witness: a user who has a record stored was deactivated, asked to      *)
(* delete it with a token issued earlier, and was refused                 *)
InactiveOwnerRefused ==
    /\ resp.op = "delete"
    /\ resp.status = 400
    /\ resp.detail = <<"Inactive user">>
    /\ resp.bearer \in issued
    /\ \E c \in DOMAIN calcs :
          /\ resp.path = UuidStr(c)
          /\ UuidStr(calcs[c].user_id) = resp.bearer.payload.sub

(* ---------------------------------------------------------------------- *)
(* C26 as stated: User.register succeeds only if the password has eight   *)
(* characters or more, an uppercase letter, a lowercase letter and a      *)
(* digit and confirm_password equals it; a submission that breaks a rule  *)
(* fails with ValueError carrying the message of the first rule broken,   *)
(* in the order required, length, uppercase, lowercase, digit, match, and *)
(* adds no user.                                                          *)
FirstBrokenRule(user_data) ==
    LET password == user_data.password
        Has(class) == \E i \in 1..Len(password) : password[i] \in class
    IN  CASE password = <<>> -> "Password is required"
          [] password # <<>> /\ Len(password) < 8
                -> "Password must contain at least 8 characters"
          [] Len(password) >= 8 /\ ~Has(UpperChars)
                -> "Password must contain at least one uppercase letter"
          [] Len(password) >= 8 /\ Has(UpperChars) /\ ~Has(LowerChars)
                -> "Password must contain at least one lowercase letter"
          [] Len(password) >= 8 /\ Has(UpperChars) /\ Has(LowerChars) /\ ~Has(DigitChars)
                -> "Password must contain at least one digit"
          [] Len(password) >= 8 /\ Has(UpperChars) /\ Has(LowerChars) /\ Has(DigitChars)
                /\ user_data.confirm_password # password
                -> "Password inputs do not match"
          [] OTHER -> ""

ExplicitDeltas == {0, 1, DefaultAccessDelta, DefaultRefreshDelta}

ExplicitDeltaHonoured ==
    \A sub \in SubjectInputs, d \in ExplicitDeltas, t \in MintTimes :
        /\ create_access_token(sub, d, t).payload.exp = t + d
        /\ create_refresh_token(sub, d, t).payload.exp = t + d

(* What does hold: every delta but zero is honoured, and the default is   *)
(* taken when none is passed                                              *)
NonZeroDeltaHonoured ==
    \A sub \in SubjectInputs, t \in MintTimes :
        /\ \A d \in ExplicitDeltas \ {0} :
              /\ create_access_token(sub, d, t).payload.exp = t + d
              /\ create_refresh_token(sub, d, t).payload.exp = t + d
        /\ create_access_token(sub, NoTime, t).payload.exp = t + DefaultAccessDelta
        /\ create_refresh_token(sub, NoTime, t).payload.exp = t + DefaultRefreshDelta

(* The first state of SpecPut is one SpecCalc reaches *)
PutInitReached == ~(calcs = (1 :> Stored) @@ (2 :> StoredDivision) /\ resp = NoResponse
                    /\ req = [r \in Slots |-> Idle] /\ LoggedIn)

(* ---------------------------------------------------------------------- *)
(* C28  A PUT /calculations/{id} changes nothing before its commit, and   *)
(* its commit leaves the set of records, every other record, and the      *)
(* owner and type of its own record as they were; the record it answers   *)
(* with has the id of the path.  When the handler assigned no operands    *)
(* (the loaded row is as loaded, which is the case of a body without      *)
(* operands), the commit leaves the operands and the result as they are   *)
(* in the table, also when another request changed them meanwhile.        *)
(* (updated_at is not part of the rows here.)                             *)
PutFrame ==
    [][/\ \A r \in Slots :
             /\ (req[r].pc = "idle" /\ req'[r].pc = "put_ready") => calcs' = calcs
             /\ (req[r].pc = "put_ready" /\ req'[r].pc = "idle")
                   => /\ DOMAIN calcs' = DOMAIN calcs
                      /\ \A c \in DOMAIN calcs \ {req[r].cid} : calcs'[c] = calcs[c]
                      /\ req[r].cid \in DOMAIN calcs
                            => /\ calcs'[req[r].cid].user_id = calcs[req[r].cid].user_id
                               /\ calcs'[req[r].cid].type = calcs[req[r].cid].type
                               /\ req[r].calc = req[r].snap
                                     => calcs'[req[r].cid] = calcs[req[r].cid]
                               /\ resp'.status = 200
                               /\ resp'.path = UuidStr(req[r].cid)
                               /\ resp'.body = {CalculationRecord(calcs', req[r].cid)}
       /\ (Answered /\ resp'.op = "update" /\ req' = req) => calcs' = calcs]_vars

(* Witness: a PUT without operands was answered with bob's record as it   *)
(* was stored at first (no PUT sends these operands), after a PUT had     *)
(* changed ann's record                                                   *)
EmptyPutLeftRecord ==
    /\ resp.op = "update"
    /\ resp.status = 200
    /\ resp.path = UuidStr(1)
    /\ resp.body = {CalculationRecord((1 :> Stored), 1)}
    /\ 2 \in DOMAIN calcs
    /\ calcs[2].inputs = <<4, 2>>

(* ---------------------------------------------------------------------- *)
(* The commit of a DELETE removes the record it located and no other, and *)
(* leaves the users as they were                                          *)
DeleteFrame ==
    \A r \in Slots :
        (req[r].pc = "del_ready" /\ req'[r].pc = "idle")
            => /\ DOMAIN calcs' = DOMAIN calcs \ {req[r].cid}
               /\ \A c \in DOMAIN calcs' : calcs'[c] = calcs[c]
               /\ users' = users
               /\ resp'.status = 204

(* The request that arrived in this step, from an authenticated caller,   *)
(* names a record that was stored and has been deleted                    *)
OnDeletedRecord ==
    /\ Answered
    /\ req' = req
    /\ resp'.op \in {"get", "update", "delete"}
    /\ resp'.uid # NoId
    /\ ParseUUID(resp'.path).id \in 1..(nextCid - 1)
    /\ ParseUUID(resp'.path).id \notin DOMAIN calcs

RegistryOfVariants ==
    [][/\ DOMAIN ImportedTypes = CalculationType
       /\ \A tag \in CalculationType :
             /\ ImportedTypes[tag] \in Variants
             /\ _types'[tag] = ImportedTypes[tag]
             /\ _types'[tag].identity = tag
       /\ (ret'.op = "register"
           /\ ret'.args.calc_cls \in {_types[tag] : tag \in DOMAIN _types})
             => /\ ret'.exc = "none"
                /\ ret'.value = ret'.args.calc_cls
                /\ _types' = _types
       /\ (ret'.op = "create" /\ ret'.exc = "none")
             => /\ ret'.value.type = Lower(ret'.args.calc_type)
                /\ ret'.value.type = _types[ret'.value.type].identity]_vars

(* Witness: Division was registered again, and the registry is the one    *)
(* the import left                                                        *)
VariantRegisteredAgain ==
    /\ ret.op = "register"
    /\ ret.args.calc_cls = Division
    /\ ret.exc = "none"
    /\ _types = ImportedTypes
    /\ DOMAIN _types = CalculationType
=============================================================================
